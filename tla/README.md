# Daemora: a TLA+ verification project

Daemora is a self-hosted agent platform in TypeScript: one Node.js process that
takes messages from chat clients, twenty channels, schedules, watchers and
webhooks, runs a language model with tools on them, and keeps everything in one
SQLite file. This project models the parts of it where order, overlap and
failure decide whether it is correct, checks them with TLC on small instances,
and proves the main results with TLAPS for every size of instance.

The process is single-threaded, SQLite is called synchronously
(`better-sqlite3`), and the event bus dispatches synchronously. So the only
concurrency is between stretches of code that end at an `await`, a timer or a
callback, and the only atomicity is that of one such stretch. Every module
follows this: **an action is the code from one await to the next**, with every
table, map and event it touches; what an await returns is a choice.

Contents

1. [Components](#1-components)
2. [How they interact](#2-how-they-interact)
3. [Modules](#3-modules)
4. [Runs: what is checked, with which bounds](#4-runs)
5. [Fairness](#5-fairness)
6. [Proofs](#6-proofs)
7. [What is only model-checked](#7-what-is-only-model-checked)
8. [Findings](#8-findings)
9. [Not modelled, and the plan](#9-not-modelled-and-the-plan)
10. [Running it](#10-running-it)

`PROJECT.json` is the index: components, runs, mutants (one change of a mapped
definition per property, under which the run must fail), the map from
definitions to source lines, hazards and theorems.

---

## 1. Components

Paths are under `src/src/`. "Persistent" state is in SQLite and survives a
restart; the rest is lost.

### 1.1 Components that are modelled

| Component | State | Operations | What is hard | What makes it correct |
|---|---|---|---|---|
| **Task runner** `core/TaskRunner.ts`, `tasks/TaskStore.ts`, part of `memory/SessionStore.ts` | persistent: sessions, message rows, `task_log`. In memory: `inflight` controllers, `activeBySession`, the inbox `pending` | `send`, `run`, `cancel`, time-out, `_execute`, deletion of a session | `send` decides on an index that is written two awaits later; parallel loops of one session share one inbox; a loop leaves the index in `finally`; a loop follows the session compaction moved it to; cancel announces before the loop ends | the index names live loops; no input is dropped, duplicated or forgotten; what is drained is answered; one reply per channel task; one verdict per task; every task ends |
| **Teams** `teams/TeamStore.ts`, `teams/TeamRunner.ts` | persistent: team and worker rows. In memory: `completedResults`, `failedWorkers` of each `runTeam` call | `createTeam` with `validateDAG`, `runTeam`, `deleteTeam`, abort and time-out | waves of workers that settle in any order, two runs of one team, deletion during a wave, a run after a restart that starts with empty locals | the order of the blocking relation; no worker twice; prompts with the results of all blockers; verdicts that have a cause; termination |
| **Crew runs** `crew/CrewAgentRunner.ts`, `tools/core/stopCrew.ts`, `parallelCrew.ts` | persistent: crew sessions. In memory: `activeRuns` (a Set of controllers per crew), `crewSessionIds` | `run`, `stop`, `stopAll` | runs of one crew share a session and a registration whose Set is replaced under them; `finally` of a stopped run meets the registration of a new one | what the registry lists is running; a running crew can be stopped; tool calls keep their results; a crew keeps its session |
| **Cron jobs** `cron/CronScheduler.ts`, `CronStore.ts`, `cronParser.ts` | persistent: `cron_jobs`, `cron_runs`. In memory: `inflight`, the polling timer | add, update, enable, delete, poll, `forceRun`, `execute`, stop, start | the next firing is computed when a run starts and again when it ends, with edits and deletion in between; ticks, forced runs and a restarted loop overlap | no slot twice, no overlapping execution, a readable history, no forgotten job, a next firing that matches the expression |
| **Compaction** `core/Compaction.ts` | persistent: sessions, rows. In memory: pending promises, `recentSavings`, `latestSessionId` | `maybeCompactInBackground`, `awaitPending`, `currentSessionId`, `runCompaction` | the summary is an await in the middle of a copy, under loops that read and write both sessions; the child may be compacted in turn | nothing said is lost or reordered; originals stay; useless passes stop; turns continue in the newest session |
| **Integrations** `integrations/IntegrationManager.ts`, `IntegrationStore.ts` | persistent: encrypted accounts and tokens. In memory: `refreshInflight`, `earlyRefreshTimers`, the sweep's interval, listeners | connect, `getAccessToken`, `forceRefresh`, sweep, early timer, disconnect, vault lock and unlock | two thresholds, a one-shot timer and a periodic pass share the work; a pass goes on with the list it began with; a refresh stores the tokens it set out with | no token runs out unnoticed; one that did is asked for again; crew, cache and server follow the accounts |
| **MCP servers** `mcp/MCPManager.ts`, `MCPIntegrationBridge.ts` | persistent: `mcp.json`. In memory: connected servers, the bridge's token cache | connect, disconnect, call, reconnect when an account's token changes; the user's switches of servers and crews (routes, `manage_mcp`) | a listener awaits a token and uses it whatever happened meanwhile; a reconnect gives the old server up and yields before it registers its own; accounts and the user decide on the same server | the cache is the newest account's token; the server is as the last decision left it, whoever made it |
| **Files and image scans** `files/FileProjectStore.ts`, `scanQueue.ts` | persistent: a manifest and one description per file name. In memory: the queue of pending scans, jobs in flight | create, delete, upload, rename, remove, `enqueue`, `runJob`, `recoverPending` | only pending jobs are compared; images of one name share a description; an image or its project goes while its scan writes; a crash between the manifest and the queue | no scan is forgotten; every scan settles; a description is its image's own |
| **Channels** `channels/ChannelManager.ts`, `StreamingEditor.ts` | in memory: running channels, streams, editors | start, stop, startAll, stopAll, reload; text and reply events, `flush`, `deliverFinal` | operations await a platform in between their look and their write; a failed edit puts an older text back; a failed stream whose reply is sent again | the whole reply is shown; the drain ends; what is registered runs and listens |
| **Goals** `goals/GoalStore.ts`, `scheduler/GoalPulse.ts` | persistent: `goals` rows. In memory: failures per goal | edit, `tick`, `executeGoal` | a tick awaits whole tasks and does not wait for the tick before | a goal is checked once per slot, and is checked |
| **Watchers** `watchers/WatcherRunner.ts`, `PollWatcher.ts`, `IntegrationWatcher.ts`, `FileWatcher.ts`, `WatcherStore.ts` | persistent: `watchers` rows. In memory: running instances with their signatures, the hash last seen, timers | routes and tool, `reload`, poll, fire, cool-down | an instance is stopped before its successor exists; a poll outlasts its interval, or its instance | what runs is what the rows ask for; reports are news; a change is reported |
| **Voice** `voice/VoiceSession.ts`, `voice/tts/OpenAITTS.ts` | in memory: state, transcript buffer, timers, the adapter's buffer and requests | transcript, reply, audio, interrupt, silence prompt, disconnect | turns overlap interruptions, and requests of the speech adapter overlap each other | what was interrupted is not heard; the microphone opens again |
| **Loop detector** `core/LoopDetector.ts` | in memory: the last ten calls of each task | `record`, `cleanup` | four patterns with their own windows, counts and exemptions judge one history | short loops are stopped; work that is new is not |

### 1.2 Components with state and order of their own, not modelled yet

| Component | State | Operations | What is hard |
|---|---|---|---|
| **Inbound debouncer** `core/InboundDebouncer.ts` | pending windows per session | `debounce`, `shutdown` | a window restarted by each message; what is kept of the messages merged |
| **Safety guards** `safety/` | `Supervisor` counters, `CircuitBreaker` entries, pending approvals, snapshots; the rest are predicates | check, record, approve, time out | counters cleared by the announcement that a kill makes. Nothing instantiates these classes yet |
| **Learning** `learning/` | memories, decay log, debounced extractions, turns since a review | `schedule`, `runDecay`, recall, review | decay pages by offset through a table it deletes from |

### 1.3 Components without order or state to model

Agent loop and attachments (one await of the task runner), tools (I/O bodies),
hooks (a subprocess with a verdict), event bus (part of the step that emits),
skills, memory stores other than `SessionStore`, models, costs, configuration
and vault, authentication, HTTP routes, command line, daemon, tunnels, clean-up,
projects and wiki, embeddings, utilities, the crew registry, crew manifests, user
interface, installer, tests. Heartbeat, morning pulse and daily log are periodic
surveys; the one of them that judges another component's state, `brokenCrons`,
is in Cron. Webhooks match a watcher and start a task. PROJECT.json gives the
reason for each.

---

## 2. How they interact

`cli/commands/start.ts` builds everything once, in this order: stores over one
SQLite connection (foreign keys on, rows of a session or a job cascade), agent,
crews, `CompactionManager`, `TaskRunner`, debouncer and channels, `CronScheduler`,
`GoalPulse`, `Heartbeat`, `WatcherRunner`; `IntegrationManager`, `MCPManager` and the
bridge between them before the vault is unlocked.

```
 chat, voice, goal, cron ---- send() --+
 channels, watchers, webhooks - run() -+--> TaskRunner --await--> AgentLoop --> tools
                                              |   ^                   |           |
             session rows, inbox  <-----------+   | latest session    | use_crew  | team tool
             maybeCompactInBackground ------> CompactionManager       v           v
                                                              CrewAgentRunner  TeamRunner
 CronScheduler --onDue--> CronExecutor --> send()
 GoalPulse, a tick a minute --> send("main"), and waits for the task
 WatcherRunner --trigger--> run()           routes --> WatcherStore, reload()
 Heartbeat --reads--> cron_runs, goals, tasks
 EventBus (synchronous):
   task:*, text:*, reply:needed --> ChannelManager --> StreamingEditor --> platform
   integration:connected / disconnected / refreshed
                        --> crew sync; MCPIntegrationBridge --> MCPManager
   vault:locked / unlocked --> IntegrationManager (sweep), ChannelManager (stop, start)
```

* **Calls with an answer later.** `send` and `run` return an id at once; the loop
  goes on by itself and reports through events. `onDue` of a cron job resolves
  when its task ends, or at once when the prompt was injected.
* **Shared state.** `TaskRunner` and `CompactionManager` both read and write
  sessions and the map from a session to its child. All runs of a crew share one
  session. All runs of a team share its rows.
* **Coroutines that meet.** `start`, `stop` and `reload` of channels, listeners of
  integration events, refreshes of one account, scans of one project and ticks of
  `GoalPulse` are all functions that await something with others of their kind
  going on in between; what each found before its await may be stale after it.
* **Deletion from outside.** The HTTP API deletes sessions, teams, jobs, goals,
  file projects and accounts whatever is running on them; inserts of the former
  three then fail on the foreign key. The `watcher` tool writes rows without the
  `reload()` the routes call.
* **Restart.** There is no recovery procedure for tasks, teams, crew runs or
  jobs: maps are empty, rows stay as they were. Image scans have one
  (`recoverPending`), and an unlocked vault starts a sweep over the tokens.

---

## 3. Modules

| Module | What it is | Used by |
|---|---|---|
| `TaskRunner` | the run loop, the inbox, the indexes, roll-over behind the loop | `MCTaskRunner`, `TaskRunnerProofs` |
| `TeamDag` | `validateDAG` as operators, with a reference definition | `Team` |
| `DagSchedule` | abstract: workers of a blocking relation start in an order it allows | `Team` (refinement) |
| `Team` | a team's rows and the `runTeam` calls on it | `MCTeam`, `TeamProofs` |
| `CrewRuns` | runs, stops and the shared session of crews | `Tools` |
| `CronTime` | `nextFire` as a recursive function over minutes, with a reference definition | `Schedules` |
| `Cron` | jobs, executions, the polling loop, the history | `Schedules` |
| `Schedules` | `Cron` with the calendar its slots come from | `MCCron`, `CronProofs` |
| `RollOver` | abstract: what compaction promises the run loop | `Compaction` (refinement) |
| `Compaction` | `CompactionManager` under loops that read and write the sessions | `MCCompaction`, `CompactionProofs` |
| `TokenRefresh` | expiry of access tokens: timers, passes, refreshes on demand | `MCTokenRefresh`, `TokenRefreshProofs` |
| `McpBridge` | accounts of an integration, the bridge's listeners, cache, server and crew | `Tools` |
| `ScanQueue` | image scans of a file project, with crashes | `Services` |
| `ChannelReply` | one streamed reply: the edit loop and `deliverFinal` | `Services` |
| `Channels` | start, stop and reload of channels | `Services`, `MCChannels` |
| `GoalPulse` | overlapping ticks over the table of goals | `Services` |
| `Services` | the four of them side by side | `MCServices`, `ServicesProofs` |
| `VoiceSession` | one voice conversation and its speech adapter | `Listeners` |
| `Watchers` | watcher rows, the supervisor and its instances | `Listeners` |
| `LoopDetector` | the calls of one task and the four patterns they are judged by | `Tools`, `MCLoopDetector` |
| `Tools` | crews, bridge and detector side by side | `MCTools`, `ToolsProofs` |
| `Listeners` | voice session and watchers side by side | `MCListeners`, `ListenersProofs` |
| `MC*` | instances for TLC: model values, enumerations of inputs, symmetry | the `.cfg` files |
| `*Proofs` | theorems and their lemmas | `tlapm` |

Inside a module: constants and their assumption, variables, `TypeOK`, `Init`,
one definition per operation, `Next`, `Spec` and its fair variants, properties.
An operator `XYZ` marked *mutant of* `F` is `F` with a plausible bug. It is in
no specification; a property is worth its run only if it fails when `F` is
replaced by one of them.

### 3.1 TaskRunner

A task is named by the message that spawned it.

| Variable | Code |
|---|---|
| `sessions`, `rows`, `status` | `sessions`, `session_messages`, `task_log.status` |
| `at`, `sid`, `retried` | program point and locals of each `_execute` |
| `inflight`, `aborted` | the map of controllers, their signals |
| `active`, `pending` | `activeBySession`, `SessionStore.pending` |
| `compacting`, `latest` | CompactionManager's promises and `latestSessionId` |
| `mute` | how long the conversation was when a task's last turn without any message ended (history variable) |
| `replies` | `task:reply:needed` events (history variable) |

| Action | Code, from one await to the next |
|---|---|
| `Inject` | `send` finds a loop on the session: inbox |
| `Spawn` | `send` without one, or `run`: row and event, up to `awaitPending` or the attachments; `Register` at once when neither waits |
| `AfterCompaction`, `AfterAttachments` | the rest of the set-up: user row, `inflight`, `activeBySession` (`Register`), first turn. If the row is refused because the session is gone, `_execute` rejects outside its `try` |
| `TurnReportsError`, `TurnThrows` | a turn fails: verdict, reply, `Finally` |
| `TurnLacksText`, `TurnDrains`, `TurnCompletes` | a turn ends: its response rows, or none if the provider sent no message (`Persist`), then the one summary retry, the drain of the inbox at the safe boundary, or the verdict, reply and `Finally`. A compaction may be started (`MayStartCompaction`) |
| `Abort` | `cancel`, or the time-out |
| `CompactionSkips`, `CompactionRolls` | a compaction settles; waiting set-ups wake |
| `DeleteSession`, `Restart` | the API; the process |

`DirectRun` are messages whose caller uses `run()` (channels, watchers,
webhooks): they never look at the index. `Quiet` are messages whose task may have turns
that end without a single message (`TaskRunner.ts:461`, and the "(no text output)" of
`:481`): such a turn writes no row, and needs none to be accepted. `Overlap` says whether a message may
arrive inside the set-up of another task; only the serial run forbids it. A
child session starts empty here: what is copied into it is Compaction's subject.
Text, tool-call rows, tokens, costs and streamed local events are abstracted.

### 3.2 Team, TeamDag, DagSchedule

`TeamDag` follows `validateDAG` line by line: names, references, then Kahn's
loop on in-degrees that count the *entries* of a list, as the code does.
`WellFounded` is the reference: in every non-empty set of workers one is blocked
by nobody in the set. The loop is a function of the number of turns made
(`InOrder`; `KahnTurn` is one turn), so that it can be proved about.

`Team` has the team row (`team`), its workers (`worker`, `texts`, `blockers`) and,
per `runTeam` call, its wave, the outcomes of it so far and its two locals
`known` (completedResults) and `failures`. `Offered` are the definitions `createTeam` is
called with, the refused ones too. `RunTeam` is the code up to the first
`Promise.allSettled`; `WorkerSettles` the resolution of one worker;
`WaveSettles` everything from the last of them to the next wave or the verdict
(`Iterate` = `StartWave` or `EndRun`). `DeleteTeam` and `Restart` strike at any
moment; `context` records which results each prompt was built from.

Team implements `DagSchedule` with the identity as refinement mapping on
`blockers` and `worker`: runs, waves, locals and verdicts are hidden.

Only `TeamStore` is instantiated by `start.ts` so far; `runTeam` is modelled from
its class, as the contract of the operation the team tool describes.

### 3.3 CrewRuns

`index` is `activeRuns`; the Set object an entry holds has an identity, named by
the run that created it, so that a run keeps the object it joined (`mine`) when
`stop` has removed it and a later run has made another. `Begin` is `run` up to
its stream (session lookup, registration); `PrimaryEnds`, `PrimaryLacksText`,
`SummaryEnds`, `RunFails` are the ends of the two streams with the `finally`
block; `Stop`, `StopAll`, `DeleteSession`, `Restart` come at any moment. Session
rows are kept in order of last use (`recency`), because a crew finds its session
again by that order after a restart.

### 3.4 Cron and CronTime

`Cron` has the job table, the history `runs` (newest last), `inflight`, the
number of pending `onDue` promises (`awaiting`), the timer, and the slot each job
was last fired for (`consumed`, a history variable). `Tick` fires everything due
that is not in flight; `ForceRun` one job; `Settle` is the code after `onDue`,
either verdict, including the failing inserts on a deleted job; `UpdateJob`
stands for every patch of expression and switch; `Stop` and `Start` act on the
timer only, so executions outlive them. What `nextFire` returns is any later
slot or none.

`CronTime` is that function: the search through month, day, hour and minute with
the steps of the code, in a calendar whose sizes are parameters. It runs in a *place*: the job's
zone, by what its clock is ahead of the minutes counted, in summer and otherwise, and the
machine. The machine matters twice. `getDay()` reads the weekday of UTC's midnight of the date in
the machine's own zone (`cronParser.ts:209`), so that west of UTC it is the day before
(`Seen`). And where its `Intl` writes midnight as the hour 24, `toTimezone` corrects it (`:205`) and
`dateInTimezone` does not (`:245`), so that the jump to the next month lands a day early wherever
the zone agrees with UTC. `DateInTimezone` takes the zone's offset at UTC's midnight of the date, as the
code does, right or not. A jump that does not lead on leads to the same minute again, and the
loop has no end (`Endless`). `Earliest` is the reference, on the clock of the job's zone, and `Schedules`
compares the two. Parsing a field yields a set of values. Zones less than an hour ahead of UTC are
not modelled, nor are those that put their clock back across the beginning of a month.

### 3.5 Compaction and RollOver

Messages are numbered as they are said. A row is a message or the summary of
several. `TurnEnds` appends a message and may start a compaction, whose cut of
head, middle and tail is read at once into `snapshot`; `RollsOver` is the code
after the summary call, with the call succeeding or failing, and creates the
child. `Arrives` is a new task up to `awaitPending`, `Resumes` its lookup of the session; it writes its
first row there at once, or after its attachments (`AfterAttachments`), by when the session may have been
rolled over. Whether a session is over the threshold, how much tail fits the
budget and what a pass saves are open choices, as tokens are not counted. `torn`
is a history variable: sessions that were rolled over while a loop was on them, a task
was on its way to them behind its attachments, or with rows newer than the copy.

`Compaction` implements `RollOver` with `compacting <- pending`: per session at
most one compaction, which ends with nothing or with one fresh child.

### 3.6 TokenRefresh

Time passes in steps of one unit (`Tick`), and `token` is the time each stored
token has left. `timer` is the one-shot timer of an account, `sweepIn` the time to
the next background pass, `passes` the passes under way with the accounts they
still have to look at, each with the expiry they read *when they began*. `Use` is
`getAccessToken` (and `forceRefresh`), `SweepStep` one turn of
`backgroundRefresh`'s loop, `TimerFires` the timer; all three join the refresh in
flight if there is one. `Refreshed` and `RefreshFailed` are the provider's answer
with everything up to the next await, passes that waited for it included. `Lock`
and `Unlock` are the vault's events. `lapsed` is a history variable: accounts whose
last refresh failed, brought a life within the margin, or whose timer a pass set
from an expiry of the past.

### 3.7 McpBridge

One integration with several accounts, and one remote server, on which accounts and the user
decide alike. A listener is a coroutine with a program point: `token` (it awaits a token),
`yield` (its `connect()` has given the old server up and waits for a batch of microtasks),
`discover` (it awaits the tools). `Connect`, `Disconnect`, `Refreshed` are the store's writes
with their synchronous events, including the crew sync and the start of the
bridge's listeners; `Proceed`, `Register` and `Discovered` continue one.

`setting` is the server in `mcp.json` (enabled, disabled, not there), `server` the entry of
`MCPManager.servers`, which a failed discovery keeps. The user's switches differ in which of the two they
touch:

| Action | Code | `setting` | entry |
|---|---|---|---|
| `SwitchOn` | enable or add, by `routes/mcp.ts`, `manage_mcp` or the integration's tools | on | connected |
| `SwitchOff` | disable or remove | off, gone | closed |
| `EditOff` | `PATCH /api/mcp/:name`, or adding a disabled one | off | as it was |
| `Drop` | the older `DELETE` route | as it was | closed |
| `Reload` | reload, reconnect, an edit of another server, the older `POST` | as it was | connected again |
| `ShowCrew`, `DisableCrew` | the crew's switch | | |

`wish` is what was decided last, `overtaken` says that the server was given up while the listener of a new
account waited for its token, which enables it afterwards. `staged` is what the crew sync
holds: a crew that was disabled when the process started is not among them, so connecting an account later does
not show it. `byHand` is that the user showed the crew. `crossed`, `revived` and `primed` are history
variables that name the exceptions the properties allow. Uninstalling a crew is not modelled.

### 3.8 ScanQueue

`dir` and `record` are the project on disk, `filer` the descriptions by *file
name*, `pending` and `job` the queue. `Upload`, `Rename`, `Remove`, `CreateProject`
and `DeleteProject` are the store's operations with the `enqueue` that follows and
its `pump`. A job awaits the model (`Described`), then the write of the filer
(`Written`), then settles (`Ended`); `Failed` is any error. `Restart` strikes at
any moment: a filer being written is `Torn`, and the start runs `recoverPending`.

### 3.9 ChannelReply and Channels

`ChannelReply` is one task's reply. A task whose inbox was filled goes through several rounds
(`NextRound`) on one stream, whose buffer stays. Each round has its deltas (`Delta`) and ends with a
text of its own (`TextEnd`), which is the reasoning or a note if it wrote none; `reply_to_user` sends
another in its midst (`Narrates`). So a text is its length, and how much of which round's it tells, and the
code compares lengths only. `ReplyNeeded` is the event that asks for the reply. A flush of `StreamingEditor` is a coroutine that
awaits the platform (`calls`); what awaited the same call goes on in the
order it began to wait (`ready`,
`GoOn`). The platform may answer, refuse, or lose an edit in silence (`lost`).
`Decide` and `SendReply` are the ends of `deliverFinal`, `StopAll` the channels'
stop in the midst of it.

`Channels` has the operations `start`, `stop`, `startAll`, `stopAll` and `reload` as
coroutines (`op`) over `running`, `disposed` and the instances that poll (`alive`);
`SecondLogin` is the lock and unlock that a second login makes. A `stop()` that throws leaves its instance
running and unregisters it all the same.

### 3.10 GoalPulse

Ticks are coroutines over the goals they found due: `Begin` is `tick` up to its
loop, `Send` the next goal's `send()` into session "main" (an injection, if a task
runs there, which counts as done at once), `Registered` the moment the task it spawned
is in the index, `Progressed` and `CheckFailed` its end with the failure count and the
pause. `Edit` is a user's change of status, `TimePasses` lets a goal's cron pass, `Chat`
starts and ends somebody else's task in the session.

### 3.11 VoiceSession

`state` is that of `VoiceSession`; `reply`, `sentence`, `text` and `request` follow the
text of each turn from the agent's stream through the sentence buffer and the
adapter's buffer into the requests to the speech provider. `control` is the request the
adapter's one `abortController` belongs to. `interrupted`, `outlived`, `stale` and
`silent` are history variables.

### 3.12 Watchers

`row` is the store, `entry` and `signature` what `WatcherRunner.active` holds,
`inst` every instance that can still be called, also after its `stop()`. `Reload`
is part of `RouteEdit`; `ToolEdit` writes without it and leaves the watcher in
`unread`. A source has a version that changes (`Change`); a poll in flight
(`asked`) brings one of the versions the source has had since the request, so
answers may come late, out of order, and to a stopped instance. `Fired` and
`Trigger` are the cool-down and the task. The file watcher's window (`timer`) covers
all changes until it closes. A stopped instance nothing will call again is
forgotten (`Kept`).

### 3.13 LoopDetector

`history` is the task's last ten calls, `blocked` what `record` answered of the last. A
call is what the detector compares: its tool, the action of a multi-action tool, its
`shape` (the hash: parameter names, with the values of a value-sensitive tool) and the
`rest`, which only the exact repeat sees. A task's model calls what it likes from a small
repertoire, refused or not: a refusal is an error it reads, and the call stays in the
history. `ExactRepeat`, `PingPong`, `SemanticRepeat` and `Polling` are the patterns,
`VerifyFix` the exemption from the second, `Cleanup` the end of the task.

### 3.14 Services, Tools and Listeners

Small parts that share no state are checked in one run: the initial state chooses
the part that moves (`part`) and the others stay where they begin. Their
properties speak of one part each, so an interleaving could show no more, and the
states add up instead of multiplying.

---

## 4. Runs

Ten runs must pass, two must find a violation. TLC numbers are distinct states.

| Run | Question | Instance | States |
|---|---|---|---|
| `runner_parallel` | Do parallel loops of one session keep index and inbox straight? | 3 messages, one by `run()` on a channel; 1 session with 1 child; overlap; turns without a message | 2.02 M |
| `runner_faults` | Does every task end, and is every queued input absorbed, under deletion and restart? | 2 messages (one on a channel, one with attachments), deletable session, child, turns without a message, 1 restart; `FairSpec` | 76 k |
| `runner_serial` | Under which conditions is a session one continuous conversation? | 3 messages, `send()` only, no child, no overlap, turns without a message, 1 restart; `HangingSpec` | 181 k |
| `team_runs` | Order, exclusion, context, verdicts and end of team runs; is `validateDAG` exact? | every blocking relation on 3 workers (cycles included), 2 runs, 1 restart; 60,880 definitions offered; `FairSpec` | 127 k |
| `tools` | Crew runs, the MCP bridge, the loop detector: see the properties | 3 runs, 2 crews, 3 session ids, 1 deletable, 1 fresh, 1 restart; 2 accounts, 3 tokens, 2 listeners, 2 switches, 1 restart; 4 repertoires of three calls, a full window of 10 | 2.10 M |
| `cron_safety` | Slots, executions, service; is `nextFire` sound, and where exact? | 2 jobs, 2 slots, clock to 3, 2 rows, 1 restart; 900 expressions × 46 minutes × 5 places; `FairSpec` | 130 k |
| `compaction_safety` | Is a conversation kept whole and in order through roll-overs? | 1 root, 3 children, 3 tasks, history 5, 11 messages, 1 restart | 655 k |
| `token_refresh` | Can a token run out while nobody looks? | 2 accounts, margin 1, buffer 2, period 3, horizon 4, lives 1, 3 and 5, 1 pass at a time; `FairSpec` | 139 k |
| `services` | Image scans, a streamed reply, channels, goals: see the properties | 2 files, 2 names, 1 scan at a time, 1 crash; texts of 2, messages of 2, 2 rounds; 2 channels, 2 operations; 2 goals, 2 ticks, 2 failures | 187 k |
| `listeners` | A voice session, the watchers: see the properties | 2 turns, 1 prompt, 2 requests; 1 watcher, 3 configurations (polled, through the file system, faulty), 2 instances, 2 versions | 168 k |
| `channels_reload` | *violation*: the channels an unlock starts take messages | 1 channel, 2 operations | |
| `loops_rounds` | *violation*: rounds of three calls are a loop | 3 calls whose parameters never change | |

A cfg of a passing run checks what no theorem has settled, or what a theorem states
and a mutant of the code would break first. `TypeOK` of every module, and
`ActiveIsLive`, `StrandedOnlyByFailure`, `VerdictIsFinal` (TaskRunner),
`WavesDisjoint`, `StatusMovesForward` (Team), `EntryIsLive`,
`CallsKeepResults` (CrewRuns), `OnlyEnabledScheduled`, `HistoryPairs` (Cron),
`OriginalIntact`, `ThrashingStops` (Compaction), `Served` and `NoScanLost` (ScanQueue) are
proved,
or hold in the runs when they are added to the `INVARIANTS` or `PROPERTIES` of their
cfg; so are `NoOverlap` (ChannelReply) and `OneInstance` (Channels), and so does
`OrphansOnlyByYield` (McpBridge).

### What each property says

*Task runner.* `InputKeptOnce`: an input is in exactly one place, inbox or
row. `CompletedAnswersAll`: a completed task has a response of its own behind every user row it
wrote, unless a later turn of it ended with nothing to say (`mute`). `OneReplyPerChannelTask`: a task whose
loop is over has made one reply, the apology iff it failed; one that is under way, or was refused its first
row, none. `EveryTaskSettles`: every task the runner accepts ends with a verdict in the table; only a
restart, or the deletion of its session during its set-up, takes it away without.
`InjectedIsAbsorbed`, `AbortEndsTask`: as named. `SerialOneLoop`, `SerialRepliesFollowPrompt`: with `send()` only, no
roll-over and no message inside a set-up, each live loop is the indexed one and
each response follows its prompt. Proved besides: the index never names a loop that is
over or has moved (`ActiveIsLive`), and inputs are left without a loop only if one of the
session failed (`StrandedOnlyByFailure`).

*Teams.* `FullContext`: a prompt has the texts of all blockers, also in a run
that did not run them. `VerdictIsRight`: a team with one undisturbed run is completed
only when all its work is done and failed only for a cause. `AcceptsExactlyDags`:
`validateDAG` accepts the well-founded definitions and no other. `KeepsSchedule`:
refinement. `RunEnds`: liveness.

*Crews.* `LostOnlyBehindStopped`: a running crew out of reach implies that a stopped
run of it has unwound. `OneSessionPerCrew`.

*Cron.* `OneExecution`, `SlotFiresOnce`, `DueIsServed`: as named. `NextFireIsSound`:
in every place `nextFire` answers later minutes the expression names on the clock of the job's zone, but for
the weekday on a machine west of UTC (`FiresOnlyWhenDue`); it is exact from any
minute of an hour the expression names, which is where a job that has just fired is, if no
clock is changed and the weekday can be told (`ExactWithinFiringHour`); and it ends, except where the
zone changes its clock, or agrees with UTC on a machine that writes midnight as 24 (`SearchEnds`).

*Compaction.* `ConversationIsWhole`: the session a conversation continues in
represents all that was said in those before it, unless a session was rolled over
under a running loop, under a task that waited for its attachments, or behind newer rows
(`torn`), or the process restarted.
`OrderIsKept`, `KeepsPromise`: as named.

*Tokens.* `KeptWarm`: a token that has run out is being refreshed, or its refresh failed,
or nobody could know (`lapsed`), or the vault is locked. `ExpiredIsRetried`: it is
asked for again, however often that failed.

*MCP bridge.* `CacheIsNewest`: when no listener is at work the cache holds the stored
token of the newest account, unless accounts changed under a wait (`crossed`) or the
bridge began under a locked vault. `ToolsFollowDecisions`: when no listener is about to change it, the server is set, and has an entry,
as was decided last, by an account connected, the last one disconnected, or the user,
so that what the user gave up comes back only by such a decision, unless it was given up while a
new account's listener waited (`overtaken`); a crew is shown without an account only by the user, and an
account is without its crew only if the user disabled it or a late refresh revived the account
(`revived`).

*Loop detector.* `ShortLoopsEnd`: a model that goes round one, two or three calls is
refused within the window, whichever pattern catches it, but for the rounds in `Excused`.
`NewWorkPasses`: a call the window has not seen is let through among value-sensitive
calls, and so is a new action of a multi-action tool, unless it is polling.

*Scans.* `FilerIsOwn`: the description of a scanned image is there,
whole, and its own, unless another image was scanned under its file name.
`ScanSettles`: liveness. Proved besides: what the manifest says is due or under way is
known to the queue, across crashes (`NoScanLost`).

*Channels.* `WholeReplyShown`: a completed reply, the text of the last round, is in the chat as a
whole unless the platform refused it, whichever edits failed or crossed; it is not promised behind
earlier rounds if part of it did not come as deltas, since the buffer may be longer.
`ReplySettles`: the drain ends. `RegisteredIsAlive`: a channel nobody is at is up exactly when it is
registered, unless two operations were at it at once or its stop threw. `UnlockListens` is the refuted
one.

*Goals.* `OncePerSlot`: one check per slot unless ticks overlapped on the goal.
`DueIsServed`: liveness.

*Voice.* `InterruptedIsSilent`: an interrupted turn is not heard again, unless its
reply sent no token during the interruption or was in an older request (`outlived`).
`MicReopens`: the session listens again after every turn that made a sound.

*Watchers.* `WatchersFollowRows`: only the instance on record runs, with its row's
configuration, exactly if the row (as last loaded) asks for it; the exceptions are a
faulty configuration and an instance stopped for one (`stranded`); a stopped instance
reports at most once more. `ReportsAreNews`: no report is older than the one before.
`ChangeIsReported`: liveness.

### Bounds, and why they are enough

* **Restarts: at most one.** A restart resets memory to its initial value, and the
  tables keep what they held; the second adds no new kind of state. The proofs
  hold for any number.
* **Messages: three.** Two loops that run in parallel and one input that meets
  either; with `run()` the third is a third loop. The two-message run is small
  because it also has deletion, attachments and restart.
* **Sessions: one and its child.** Sessions of different roots share no index
  entry; they meet only in deletion and compaction, each keyed by session.
* **Workers: three.** The smallest with a chain, a fork, a join, and cycles of one,
  two and three. Definitions of up to three workers with up to two listed
  blockers include repeated names and repeated blockers.
* **Runs of a team: two**, overlapping or one after the other.
* **Crew runs: three.** The loss of a registration takes two; the third shows that
  it has no other cause.
* **Slots 1 and 3, clock to 3.** A slot that is over, one that is due, one to come,
  and a unit of time between slots. `MaxRows` only stops forced runs.
* **The toy calendar** has 3-minute hours, 3-hour days, 2-day weeks and months of 3
  and 2 days: every carry of the search happens within 46 minutes. Its five places are UTC
  with midnight written as 0, and as 24 on a machine west of UTC; a zone west and one east
  of it; and one whose summer time begins in the last hour of a month. The real
  calendar is used for the finding.
* **Messages in Compaction: 11,** five of them history: enough for a cut with a
  middle, turns during the summary, and two further roll-overs of the child.

* **Times of TokenRefresh: 1 < 2 < 3 < 4** keep the order of the code's 60 s, 5, 30 and
  35 minutes, with a life within the margin and buffer, one between them and the
  horizon, and one beyond. Two accounts, since a pass that awaits the first goes on
  with an old expiry of the second. The proof holds for all values in this order.
* **Listeners of McpBridge: two**, in each other's way; three tokens are one for each
  account and a refresh or a reconnection of either; two switches are the server given up and
  taken back, or server and crew. The proofs hold for any number.
* **Calls of LoopDetector: three,** of value-sensitive tools, of others, of a multi-action
  tool, and mixed; every sequence of them is tried until the window is full and moves. The
  part has also been run alone with ten repertoires (626 k states). Rounds of four or more
  are no pattern of the code, and no property's.
* **Scans:** two files under one or two names. The part has also been run with three
  files, two scans at a time (755 k states); the proofs hold for any number.
* **Two rounds with texts of up to 2, and a cap of 2:** a second text that is shorter than, as
  long as, or longer than what the buffer has, and a buffer that outgrows one message.
  The proof holds for any number and length.
* **Two operations on channels (one channel for the refuted claim), two ticks, two turns, two requests:** the hazards are
  about two of a kind that meet; three goals or channels would repeat them.
* **Two instances of one watcher, two versions:** the stopped one and its successor;
  a version seen, one reported and one in flight. Watchers share nothing.

Deadlock is not checked: every instance really may stop, when all its messages
are answered, its runs over, or its bounds reached.

---

## 5. Fairness

| Specification | Assumes | Why the code justifies it |
|---|---|---|
| TaskRunner `FairSpec` | every await of a task and of a compaction settles | provider calls end or time out; the attachment processor and the summary call catch their errors. No message, abort, deletion or restart has to happen |
| TaskRunner `HangingSpec` | only aborted turns end | the signal is passed to the provider, which rejects; a provider that hangs is allowed, which is what `AbortEndsTask` is about |
| Team `FairSpec` | crew runs settle, and the runner goes on when a wave has | `runWorker` ends with its crew run, which the signal aborts |
| Cron `FairSpec` | the timer ticks while it is on; `onDue` settles | `setInterval`; tasks end (`EveryTaskSettles`) |
| TokenRefresh `FairSpec` | sweep, timers and clock go on, refreshes are answered: strong, as each waits for a pass that may come again and again | timers of the event loop; a pass runs from await to await; the provider's call ends or times out |
| ScanQueue `FairSpec` | each job in flight ends | the model's call has a time-out, files are written or refused |
| ChannelReply `Fairness` | coroutines go on, the edit timer fires, the platform answers one of the calls | promises and timers; platform clients time out |
| GoalPulse `Fairness` | a tick begins again and again (strong: it waits until a slot for ticks is free), its loop runs, tasks end | `setInterval`; `EveryTaskSettles` |
| VoiceSession `Fairness` | the 100 ms and buffer timers fire, the agent ends its turns, requests to the speech provider end | timers; the agent's 60 s limit; HTTP requests end |
| Watchers `Fairness` | polls are made, file windows close, and a request that is made again and again is answered some time (strong) | `setInterval` and `setTimeout`; `fetch` has time-outs of its own and errors are caught; that a source is not down for ever is an assumption about the outside |

Most are weak fairness of single steps: a step that stays enabled is taken, which
is what an event loop gives a settled promise or a due timer. The safety-only
runs use `Spec`, without fairness. `EveryTaskSettles` and the absorption of
inputs hold with compaction in the way because its promise settles one way or
the other, clears itself in `finally`, and `awaitPending` swallows a rejection.

---

## 6. Proofs

14,739 obligations in eight modules, no step left open. The theorems hold for every
value of the constants that satisfies the module's assumption: any sets of
messages, sessions, workers, crews, jobs, tasks, accounts, files, channels, goals or
watchers, any number of restarts.

| Module | Assumptions | Theorems |
|---|---|---|
| `TaskRunnerProofs` (2,225) | `TaskRunnerAssumption`: `None` is no message, roots and children are disjoint, the parameter sets are subsets of what they select from | `TypeCorrect`, `LoopSafety` (`ActiveIsLive`, `StrandedOnlyByFailure`), `VerdictsAreFinal`, `SerialIsOneLoop`, `ChannelHearsOnce` (`OneReplyPerChannelTask`), `CompletedHasAnswered` (`CompletedAnswersAll`), `SerialConversation` (`SerialRepliesFollowPrompt`), `InputsAreKept` (`InputKeptOnce`) |
| `TeamProofs` (1,538) | `NameFinite`; `TeamAssumption`: definitions use names of `Name` | `TypeCorrect`, `TeamSafety` (`BlockersFirst`, `WavesDisjoint`, `FullContext`), `TeamKeepsSchedule`, `WorkersMoveForward`, `VerdictsAreRight` (`VerdictIsRight`), `DagsAreAccepted` (`AcceptsExactlyDags`) |
| `ToolsProofs` (3,179) | `CrewRunsAssumption`: `None` is no run, crew or session; `ToolsAssumption`: nor an account or number, the bound on listeners is a number | `TypeCorrect`, `EntriesAreLive`, `OutOfReachBehindStopped`, `SharingKeepsResults`, `CrewsKeepTheirSession` (`OneSessionPerCrew`); `CacheHoldsNewest` (`CacheIsNewest`), `ToolsAreAsDecided` (`ToolsFollowDecisions`); `ShortLoopsAreEnded` (`ShortLoopsEnd`), `NewWorkIsLetThrough` (`NewWorkPasses`); `EachToolIsItself` |
| `CronProofs` (1,479) | `CronAssumption`: slots are times from 1 on, bounds are numbers; `SchedulesAssumption`: hours, days, weeks and months have a positive length, there is a month, fields are sets of numbers, no zone is less than an hour ahead of UTC, `Endless` is no answer | `TypeCorrect`, `ExecutionIsSingle` (`OneExecution`), `SlotsFireOnce` (`SlotFiresOnce`), `OffIsUnscheduled`, `HistoryIsPaired`, `NextFireIsRight` (`NextFireIsSound`) |
| `CompactionProofs` (1,595) | `CompactionAssumption`: roots and children are disjoint, there are finitely many roots and messages enough for their histories | `TypeCorrect`, `ImplementsRollOver`, `OriginalsStayIntact`, `OrderSurvives`, `LowSavingsEnd`, `NothingIsLost` (`ConversationIsWhole`) |
| `TokenRefreshProofs` (441) | `TokenRefreshAssumption`: 0 < margin < buffer < period < horizon, lifetimes are positive or none | `TypeCorrect`, `TokensKeptWarm` |
| `ServicesProofs` (2,910) | `ScanQueueAssumption`: finitely many files, at least one scan at a time; `ServicesAssumption`: bounds are numbers, at least one failure is allowed; the absent value is no record, operation or check | `TypeCorrect`, `NothingLost`, `AlwaysServed`, `ScannedIsOwn` (`FilerIsOwn`); `RepliesAreWhole` (`WholeReplyShown`), `CallsNeverOverlap`; `RegisteredIsUp` (`RegisteredIsAlive`), `PollsOnce`; `ChecksOncePerSlot` (`OncePerSlot`); `EachPartIsItself` |
| `ListenersProofs` (1,372) | `WatchersAssumption`: bounds are numbers, a configuration is polled, watched or faulty and only one of these; `ListenersAssumption`: the bounds of the voice session are numbers | `TypeCorrect`, `RunningFollowsRows` (`WatchersFollowRows`), `ReportsInOrder` (`ReportsAreNews`); `VoiceTyped`, `InterruptionSilences` (`InterruptedIsSilent`); `EachListenerIsItself` |

**Task runner.** `ActiveIsLive` is not inductive: `finally` deletes whatever
entry its session has, so one must know that a task in `inflight` is exactly one
at a program point that drives a loop, and that its row says `running`
(`Phases`). With `Phases` every action that leaves a loop also leaves the index,
and a loop that leaves without an error has just found the inbox empty; that is
`StrandedOnlyByFailure`. One lemma per conjunct, one case per action.
`SerialInv` adds that at most one task is in set-up and that its session has no
loop, from which each live loop is the indexed one.

The other four are about rows. `AnswersInv` says of every user row that it is answered
further down or by a turn that had nothing to say, or that its task is driving the very session the row is
in, or is over without having completed: a turn that ends well concludes all it has left open
(`MuteInv`: what `mute` counts lies within the conversation).
`PromptsInv` needs the index: the last row of a session being driven is the one its
task answers, which is what a second loop on the session would break. `KeptInv` speaks
of the place of an input, a position in an inbox or in the list a row carries, instead
of counting occurrences: two places are the same place, and a queued input has one.
The drain moves every place of an inbox into one row.

**Teams.** The surprise is `FullContext`: `completedResults` is a local, yet a
second run never starts a worker without the results of its blockers. The
invariant shows why. A wave claims every ready worker, so while a team is active
and a worker has started, none is ready (`Swept`); hence at most one run ever has
a wave (`RunsOfTeam`), and that run has been there since the first
(`TextsKnown`). The refinement rests on `BlockersFirst` and on one lemma about an
iteration of the loop, which is part of two actions.

`AcceptsExactlyDags` is proved for definitions of any length, repeated names and repeated
blockers included. The invariant of Kahn's loop is `Turned`: after some turns the
degrees count the entries not yet processed, the queue holds, each once, the workers with
none left, and no set of workers that block one another has been entered. A loop
that stops has therefore processed all workers, or leaves exactly such a set. Induction
over the turns is well-foundedness of the numbers applied to a set (`SetInduction`), which
needs no operator as a parameter. `VerdictIsRight` then follows from `Told`: with one
undisturbed run `failures` is the set of failed workers and what runs is in the wave; that
an accepted relation is grounded (`Grounded`) excludes that pending workers wait for each
other when the loop finds none ready.

**Crews.** `Registry` says what the Set objects hold and who points at them: a Set
is named by a run that has begun, serves one crew, and holds only runs that
joined it and go on. `Joined` is the exact damage of the known fault: a run that
goes on unstopped is in its own Set, and the crew's entry is that Set unless a
stopped run of the crew has unwound. `SharingKeepsResults` needs no registry: rows
are appended in blocks in which every call has its result, and concatenation
keeps that (`WholeConcat`). `OneSessionPerCrew` counts: a crew gets a session only when
the list of sessions in order of use has none of its own, and a list that names each
session once (`Once`) is searched from its end without missing one.

**Bridge.** `CacheIsNewest` speaks of the moments at which nobody is at work, so the
invariant must say what the listeners know in between. `AskedForNewest`: as long as nothing was
crossed, who waits for a token waits for a refresh of the newest account that set out with
its stored token; who goes on carries that token; so the last of them leaves it
in the cache. `ServerFollows` counts what a listener is about to do: unless a decision was overtaken,
setting and entry are as `wish` has them, or a listener that will see to it still waits
for its token or has its microtasks; and no listener is about to enable or register a server the last decision gave
up. Every switch is a decision, so each keeps this by lemmas about callers of `connect()`
(`CallsKeep`) and about giving up (`GivesUpKeeps`). `LockedIsStill` is why a restart does no harm beyond `primed`: under a locked
vault nobody waits and nobody carries a token. Connect, disconnect and a granted
refresh all start a listener (`Asks`), so what that leaves of the invariants is shown once
(`AskLocked`, `AskAsked`).

**Loop detector.** `Judged` says that the last verdict is what the patterns say of the
window; the rest is about sequences of ten calls, for any repertoire. A window that goes
round one call ends in an exact repeat; round two or three it is ping-pong if its tools differ, and
then too few different calls to be a verify-fix cycle or an excused round, and polling
or an excused round if they do not (`RoundOfOne`, `RoundOfTwo`, `RoundOfThree`). A call the window has not seen
closes no repeat, and if it closes a ping-pong the last four calls have three hashes
(`NewIsNoRepeat`).

**Cron.** `Scheduling` joins four facts that support each other: a fired slot is
over, what is scheduled is later, only existing and enabled jobs are scheduled,
and in flight means one pending promise. The history needs that the newest row of
an execution under way is its own `running` row (`Newest`), which holds because
executions of a job do not overlap, and that a deleted job gets no rows (`Gone`).

**nextFire.** The search is judged on the zone's clock: a turn of the loop takes the clock as far as
the minutes (`AheadMoves`), the jump to the next month included, which is where steadiness is needed. On a
machine west of UTC every weekday is taken for the one before, which matters only to an expression that
does not name them all (`ToldMatches`). `Aligned` names the places from which the search skips nothing: within an hour
that matches, at the full hour of a day that matches, at midnight. One turn of the loop
goes from such a place to such a place, over minutes none of which matches
(`AheadSkipsNone`): a minute over leaves the hour at its end, an hour over leaves the day
at its end, a day over stays at midnight, and the next month begins at one
(`MonthAhead`, which is the arithmetic of months in a year of any shape). From any other
place an hour or a day is skipped with the minute or the time of day kept, which is what
refutes `FiresAtNextMatch` (section 8). The search is a recursive
function; that there is one is shown from the horizon backwards (`SearchIs`), and what it
returns by induction over the same distance (`SearchFinds`).

**Compaction.** `Housed` says that loops, compactions and the map speak of
sessions that exist and that a fresh id has no rows; the refinement needs it for
the freshness of the child. Order survives because a cut separates earlier from
later messages (`CutTells`), and concatenating head, summary and tail keeps the
order (`OrderedConcat`); rows appended later carry larger numbers. For thrashing,
a session under compaction was not given up when it started (`Worthwhile`).
`ConversationIsWhole` needs `Inheritance`, which holds as long as nothing was torn:
roots continue in different sessions that share no message (`Apart`), whatever any
session tells is told where some root continues (`Inherited`), and loops write and
compactions begin only there (`OnHeirs`). A roll-over then hands everything on,
since the summary tells what the middle told.

**Tokens.** The invariant is `AllWatched`: a token that will run out (`Due`) has
somebody who notices before it does. That is a timer set for exactly the margin before
the expiry, or a sweep that comes at least the margin earlier, or a refresh or a pass
that waits, or the account is one of the named exceptions. `KeptWarm` follows because
a token at zero leaves neither timer nor sweep any room. Its step through `Tick` is why
the timer must be *exact* and why the period must be shorter than the horizon. The
steps of passes need that each account of the snapshot is still in `todo` or served
(`BeginWaits`, `ResumedWaits`).

**Scans.** `NothingLost` is inductive with `Served` (a queue with work at hand uses all
its slots) and the fact that a job which has only to end has settled its image
(`EndingSettled`). Everything the queue does passes through `Pump`, so what it types,
keeps and serves are three lemmas, and each action cites them for the queue it leaves.
`FilerIsOwn` needs `Owned`: a job works under a name its scan began under, on an image that
is being scanned if it is there at all, so of two images under different names neither
job can write the other's description.

**Replies.** `Coroutines` is what the streaming editor gets right without saying so: one call
to the platform at a time, of those an answer resumes only the first made it, and
the final drain is in one place at most. `TextIsSomewhere` then says where the newest
text is: still to be sent, in the call in flight, or shown. That this text is the last round's holds
in the first round by itself, and in a later one because a reply that came as deltas has been
appended to the buffer whole.

**Channels.** `Listed` follows one channel that no two operations were at: it is up exactly
when it is registered, except between the two writes of the one operation at it. A channel whose
stop threw leaves what it speaks of.

**Goals.** `TakenOnce` says that a goal no two ticks have shared is with one tick at
most, and one checked in this slot is no tick's to check. The attempt
found an error of the model: with three ticks `OncePerSlot` was false, since the exception
`overlapped` was dropped at the next slot although two ticks still held the goal. Now
it lasts while they do.

**The parts of a run.** `EachPartIsItself` says that the four parts `Services` runs side by
side each obey their own specification, fairness included: so what is proved of a part
holds of the run, and what the run finds is of the part. `EachToolIsItself` says
it of `Tools`, `EachListenerIsItself` of `Listeners`.

**Watchers.** `Supervised` says that only the instance in a watcher's entry runs, under
the entry's signature (`EntryRuns`), that numbers of instances only grow
(`NumbersGrow`), that an entry's instance runs unless the watcher is stranded
(`EntryIsUp`), and that a reload has left an entry exactly for the rows that ask for
one (`Synced`). `ReloadKeeps` is the
only long step. Actions that neither make nor stop an instance keep all four by one lemma
(`CalmKeeps`). `OneRequest` counts: an instance has at most one poll in flight, and
exactly one while it is polling, which is what a stopped one may still report.
`ReportsInOrder` adds `InOrder`: the poll in flight was sent no earlier than what was
reported last, which needs `OneRequest`, and that no polled instance has a file window.

**Voice.** `Quieted` says why an interrupted turn stays silent: as long as the session
lasts, it has no text left in the adapter's buffer or in a request that is not
aborted, and once the 100 ms of the interruption are over no reply that could bring more.
Both come with the exceptions `outlived` names: a request the one controller no longer
belonged to, a reply that missed the 100 ms. Two lemmas carry the steps:
nothing a step flushes, ends or begins brings a quieted turn back (`StaysQuiet`), and a
reply that ends adds its own last sentence only while no interruption is under
way, when it is itself no quieted turn (`FinishKeeps`).

---

## 7. What is only model-checked

* **Liveness** (`EveryTaskSettles`, `InjectedIsAbsorbed`, `AbortEndsTask`,
  `RunEnds`, `ExpiredIsRetried`, `ScanSettles`, `ReplySettles`, `MicReopens`,
  `ChangeIsReported`, and `DueIsServed` of jobs and of goals): temporal reasoning under
  fairness needs `ENABLED`, which the prover does not support.

Every safety invariant and action property the passing runs check is also proved.

---

## 8. Findings

Two runs show the code doing something other than what a comment beside it says:

* `channels_reload`: `stopAll` sets `disposed` (`ChannelManager.ts:376`) and nothing
  resets it. A second login locks the vault and unlocks it again: the channels are stopped and
  started, run, and `handleIncoming` (`:448`) drops every message they get. `start.ts:419` says
  the listener on unlock is there "so users who unlock from the browser don't have to
  manually reload channels". A reload from the API goes the same way.
* `loops_rounds`: the exemption from the ping-pong pattern counts the distinct hashes of
  the last four calls (`LoopDetector.ts:115`), of which a round of three value-sensitive
  tools has three even if no parameter ever changes. So a model that edits, runs and
  reads the same for ever is not stopped, although `:107` announces
  "A→B→C→A→B→C" and `:116` exempts only "different params each time".

Further statements are in the modules as the comments in the code make them, and TLC
refutes them; they have no run of their own, since another property says how far
the fault reaches. To see one, put the definition in the cfg named here.

| Statement, cfg | What happens | What still holds |
|---|---|---|
| `OneLoopPerSession`, `MCTaskRunner_serial` with `Overlap = TRUE` | `send()` looks at `activeBySession`, which `_execute` writes only after awaiting a pending compaction and the attachments (`TaskRunner.ts:312`). Two messages in that window run two loops on one session, although `server/routes/chat.ts:91` says "No parallel tasks per session" | parallel loops lose no input (`LoopSafety`, proved); one loop if messages do not overlap a set-up (`SerialIsOneLoop`, proved) |
| `RunningIsStoppable`, `MCTools` | `finally` tests the size of the Set the run joined and deletes the entry the crew has *now* (`CrewAgentRunner.ts:394`): a stopped run that unwinds takes the registration of its successor, which `stop_crew` no longer finds | only that way (`OutOfReachBehindStopped`, proved) |
| `FiresAtNextMatch`, `MCCron_safety`, also with `Fields <- DailyAtNine`, `Reference <- AfterMidnight`, `Places <- AtUtc`, `Utc = 0` on the real calendar (lengths 60, 24, 7, `RealMonths`, `Horizon = 1051200`) | `advanceToNextDay` and `advanceToNextHour` keep the time of day and the minute (`cronParser.ts:231`), so the search lands past the match: `0 9 * * *` asked at 00:00 is answered with a later day | from within a matching hour it is exact, and it never fires at a wrong minute but for the weekday (`NextFireIsRight`, proved) |
| `BrokenIsReported`, `MCCron_safety` with one job, `MaxRows = 6` | each execution records a `running` row besides its verdict (`CronScheduler.ts:117`), so the three newest rows `brokenCrons` reads are never all errors | verdicts and running rows pair up (`HistoryIsPaired`, proved) |
| `CurrentIsNewest`, `MCCompaction_safety` | `currentSessionId` follows the map one step (`Compaction.ts:80`); a second compaction is recorded under the child, and the root's turns go on in the session over the threshold, which is compacted again every turn into sessions nobody reads | nothing said is lost and order is kept (`ConversationIsWhole`, `OrderSurvives`) |
| `CooldownIsKept`, `MCListeners` | a watcher's cool-down is judged on the row its instance was made from (`WatcherRunner.ts:196`), and no reload renews it for a trigger alone: a second firing within the cool-down is not held back, although the head of the file (`:13`) says firing respects `__cooldownSeconds` | reports are still news (`ReportsAreNews`) |

Seen while reading, without a run:

* `TaskRunner.ts:572` deletes the index entry of the session whoever owns it: with
  two parallel loops the first to end takes the other's entry.
* `TeamRunner.ts:94`: a second `runTeam` finds no ready worker while the first one's
  wave is running and ends the team with running workers.
* `IntegrationManager.ts:50-56` describes a sweep that refreshes from minute 25-30
  on; `getAccessToken` refreshes only below a five-minute buffer.
* `IntegrationManager.ts:497`: a pass sets each timer from the expiry its snapshot holds; if the
  token was renewed meanwhile the timer is wrong or missing. No timer is set after a
  failed refresh. Both are in `lapsed`.
* `cronParser.ts:209`: on a machine west of UTC the weekday is taken for the one before: a job for
  Mondays fires on Tuesdays. `:245`: on an engine that writes midnight as 24 an expression for certain months,
  in UTC, is searched for ever, synchronously, and so it is where the clock goes forward just before a month
  begins, although `:135` has "a safety cap" against infinite loops.
* `ChannelManager.ts:549`: a round's text replaces the buffer only if it is no shorter, and the buffer
  keeps the rounds before: a later round's answer that came through `reply_to_user`, as reasoning or as
  a note is then never shown, nor sent, since the stream did not fail.
* `IntegrationCrewSync` holds the crews that were there when the process started: one that was
  disabled then and is enabled later is hidden with the last account and not shown with the next.
* `MCPIntegrationBridge.ts:52`: the bridge reads the token of an account when it is
  built, which `start.ts:219` does before the vault is unlocked (`:410`), so it never
  finds one. A refresh that fails late leaves the old token in the cache; one that succeeds late
  revives an account that was disconnected, without its crew; a listener that waits may
  enable the server after the disconnect.
* `MCPManager.ts:105`: of two `connect()` that overlap one loses its entry, and its process
  runs on.
* `scanQueue.ts:89`: descriptions go by file name, which two images may share. A project
  deleted during a scan comes back as a bare directory whose slug `create` refuses
  for good. `recoverPending` (`start.ts:303`) runs before the vault is unlocked, so what it
  recovers fails. The head of the file promises a rename of a temporary file; the
  description is written in place. `stop()` is never called.
* `VoiceSession.ts:311`: a turn without audio leaves the session in thinking or filler, where the
  microphone is muted and, in filler, the interrupt button ignored. A reply that sends no
  token within 100 ms of an interruption is spoken after it. `OpenAITTS.ts:73` aborts
  the latest request only.
* `GoalPulse.ts:81`: a check longer than a tick is found due again and injected into its own
  loop, which counts as a success and clears its failures (`:133`). The pause
  after the last failure overwrites the status the user has set (`:95`).
* `WatcherRunner.ts:91`: an instance stopped for a configuration that cannot be
  watched keeps its entry and signature; restoring the configuration does not revive it. What the
  `watcher` tool writes takes effect at the next reload only. A `stop()` during a
  fetch lets one more report through. `IntegrationWatcher.ts:143`: items are marked as seen before
  they are fired, and one that throws loses the rest. `fs.watch` errors are only logged.
* `ChannelManager.ts:466`: of the messages the debouncer merges only the first one's
  attachments are kept. The window belongs to a user of a channel (`:465`), the reply goes where
  the first of them came from: what the user writes in a second chat meanwhile is answered in the
  first.
* `MemoryDecay` calls its pass idempotent but logs a deprioritisation each time.
* `LoopDetector`'s header says four semantic repeats and a ping-pong window of eight, the code
  asks for six and looks at four or six. The comment on `MULTI_ACTION_TOOLS` (`:46`) says polling,
  ping-pong and exact repeat differentiate by action; only polling does. Two actions of the
  browser in turn, always the same two, share a tool and differ in hash and parameters: each comes
  five times in ten and no pattern sees them (`Excused`).

---

## 9. Not modelled, and the plan

Sections 1.2 and 1.3 and PROJECT.json name what is left out, and why. Most of the
repository's lines are the user interface, tools and routes: I/O without an order that
could go wrong between its steps. What could still be modelled, in order:

1. **InboundDebouncer** before `ChannelReply`: windows that restart, what is merged and
   what is lost at `shutdown`; then a composition from a message to its reply, with the
   task runner's contract (`EveryTaskSettles`, `OneReplyPerChannelTask`) in between.
2. **MemoryDecay** as an operator against a full scan; nothing runs it yet (`start.ts` builds it
   for a cron job to come).
3. The **safety classes** nobody instantiates yet, for the contract they promise.

The set of runs is kept small enough to be repeated on every change. A property that a
theorem settles gives its place to one that only a run can check, and small parts share a
run (3.14).

### Further hazards

PROJECT.json lists the hazards that matter most. These were met besides.
In the modelled components (most are in the actions):

* `core/TaskRunner.ts:491`: A turn without text is retried once with a synthetic
  prompt; the retry, the drain and the completion share one loop.
* `core/TaskRunner.ts:220`: Every turn of a session waits for its pending compaction.
* `teams/TeamRunner.ts:107`: A whole wave must settle before its results unblock
  anybody; results arrive in any order.
* `teams/TeamRunner.ts:117`: deleteTeam during a wave: the settled wave is written to
  rows that are gone.
* `teams/TeamRunner.ts:146`: Failed and skipped workers decide the verdict, counted
  from two different places.
* `crew/CrewAgentRunner.ts:187`: parallel_crew may run the same crew twice: both take
  the same session and its history as it is then, and both append to it.
* `crew/CrewAgentRunner.ts:177`: The cache of sessions is lost on restart; the crew
  must find its session again by source.
* `crew/CrewAgentRunner.ts:320`: The session may be deleted while the stream runs:
  appending throws and only finally may clean up.
* `cron/CronScheduler.ts:129`: The job is deleted while it runs: both recordRun calls
  after the await violate the foreign key, the second one in the catch block, so
  execute rejects unobserved and the job must still leave inflight.
* `cron/CronScheduler.ts:117`: Executions killed by a restart leave running rows
  without a verdict, and their slot is not run again.
* `cron/CronScheduler.ts:117`: recordRun(running) runs after inflight.add and outside
  the try: if it throws, the job stays in flight for good.
* `cron/CronStore.ts:228`: The history interleaves running rows with verdicts; readers
  that count rows see both.
* `scheduler/CronExecutor.ts:60`: A job injected into a running chat is recorded as a
  success at once, whatever becomes of the turn.
* `core/Compaction.ts:66`: The map from a session to the one its conversation
  continues in is lost on restart: the next turn reads the root again.
* `core/Compaction.ts:176`: The summary call fails and the middle is replaced by a
  note; the roll-over must go on as if it had not.
* `core/Compaction.ts:157`: The cuts after the head and before the tail may separate a
  tool call from its result.
* `core/Compaction.ts:80`: The child a session was rolled to is deleted through the
  API: the map still names it and every later turn of the root is refused until a
  restart.
* `integrations/IntegrationManager.ts:450`: A refresh stores the tokens it set out with:
  an account disconnected while the provider answers is stored again, and tokens of a
  reconnect are overwritten.
* `integrations/IntegrationManager.ts:408`: Listeners, tools and timers wait for one
  refresh of an account and go on in the order they came, with the token it brought or
  the one it set out with.
* `mcp/MCPManager.ts:105`: A reconnect gives the server up and yields before it
  registers its own entry: a second connect made in between spawns a process that the
  first call's entry then hides, and that nobody kills.
* `files/scanQueue.ts:89`: Two images with the same file name share one filer path, and
  a rename does not move the filer: the second scan overwrites the first's text, and
  removing either file removes it for both.
* `files/scanQueue.ts:67`: At most two scans are in flight; a job that ends, or finds
  its image gone at once, must make room for the next.
* `scheduler/GoalPulse.ts:95`: The goal was read before its task ran; the pause
  written after the third failure overwrites what the user made of the goal meanwhile.
* `watchers/WatcherRunner.ts:196`: The cool-down is judged on the row as it was when
  the instance was made, and the signature leaves the last trigger out on purpose: a
  watcher that fires again within its cool-down is not held back.
* `voice/tts/OpenAITTS.ts:73`: abortController belongs to the latest request: an
  earlier one that is still answering is not aborted by an interruption, and its end
  clears the controller of the later one.
* `voice/VoiceSession.ts:174`: disconnect() while connect() awaits a provider: the
  clean-up has run, and the adapter that arrives afterwards is connected and never
  closed.
* `scheduler/GoalPulse.ts:133`: A check injected into a running loop counts as checked
  at once and clears the failures, whatever becomes of that loop.
* `files/scanQueue.ts:44`: Only pending jobs are compared: a file whose scan is in
  flight can be queued and scanned a second time at once, and the two verdicts race.

In components not modelled yet:

* `core/InboundDebouncer.ts:55`: Every message restarts the window: a sender who never
  pauses is never answered.
* `learning/MemoryDecay.ts:155`: The pass pages by offset through a table it deletes
  from: after a batch with deletions the next page starts too far on and skips as many
  entries.
* `safety/Supervisor.ts:195`: A kill cancels the task, whose announcement clears the
  counters and the killed mark within the same call: the loop's remaining calls start
  a fresh budget.

### Left out of the modelled components

Parsing of cron fields and of time zone names; text of prompts and summaries; token, cost and
tool-call accounting; attachments other than as an await; two teams at once, which
share no state. OAuth up to the exchange of the code, encryption, providers' own
differences; local (stdio) MCP servers, which no account drives; files that are not
images; the platforms' clients, groups and approvals; goals' text and priorities;
speech recognition, the filler's words and the voice providers' connection; what a
watcher's prompt says, and e-mail or webhook triggers, which `reload` leaves alone.

---

## 10. Running it

    tlc -workers 2 -config MCTaskRunner_parallel.cfg MCTaskRunner
    tlc -workers 2 -config MCListeners.cfg MCListeners
    tlapm TeamProofs.tla

The longest run takes about three minutes, each proof module one to five.
