------------------------------ MODULE Watchers ------------------------------
(***************************************************************************)
(* The supervisor of watchers (src/src/watchers): rows the HTTP routes and    *)
(* the agent's tool edit, and the running instances reload() makes of them.   *)
(* A configuration is watched by polling (PollWatcher, IntegrationWatcher) or  *)
(* through the file system (FileWatcher).  Its source has a version; a poll    *)
(* brings one of those it had between the request and the answer.  A row that  *)
(* is disabled, or whose trigger is none of these, is one that is not "on".    *)
(* Every configuration has a cool-down, of no length if it names none.        *)
(***************************************************************************)
EXTENDS Naturals, FiniteSets

CONSTANTS
    Watcher,
    Polled, Watched,   \* configurations, by how their source is watched
    Faulty,            \* configurations no instance can be made of: no path, no url
    MaxInstances,      \* instances made for one watcher, a bound
    MaxVersion,        \* versions of a source, a bound
    None, Gone

Config == Polled \cup Watched \cup Faulty
Row == [on : BOOLEAN, cfg : Config]
Instance == Watcher \X (1..MaxInstances)
Status == [cfg : Polled \cup Watched,
           armed : BOOLEAN,                    \* the interval or the fs.watch is set
           polling : BOOLEAN,
           asked : SUBSET (0..MaxVersion),     \* polls in flight, by the version they may bring
           seen : {None} \cup 0..MaxVersion,   \* lastHash
           timer : BOOLEAN,                    \* FileWatcher.debounceTimer
           held : BOOLEAN,                     \* cooling down, by the row it was made from
           told : 0..MaxVersion]               \* the version it reported last

ASSUME WatchersAssumption ==
    /\ MaxInstances \in Nat /\ MaxVersion \in Nat
    /\ (Polled \cup Watched) \cap Faulty = {} /\ Polled \cap Watched = {}
    /\ None \notin Row \cup Status /\ Gone \notin Row

VARIABLES
    row,       \* the store: none yet, a row, or deleted for good
    unread,    \* watchers whose row was changed since the last reload
    entry,     \* WatcherRunner.active: the number of the instance, 0 for no entry
    signature, \* of the instance in the entry
    made,      \* instances made so far
    inst,      \* the instances; a stopped one nothing will call again is forgotten
    version,   \* of each configuration's source
    recent,    \* watchers triggered within their cool-down, by their row
    stranded   \* watchers whose instance was stopped for one that could not be made

vars == <<row, unread, entry, signature, made, inst, version, recent, stranded>>

TypeOK ==
    /\ row \in [Watcher -> Row \cup {None, Gone}]
    /\ unread \subseteq Watcher
    /\ entry \in [Watcher -> 0..MaxInstances]
    /\ signature \in [Watcher -> {None} \cup Config]
    /\ made \in [Watcher -> 0..MaxInstances]
    /\ inst \in [Instance -> {None} \cup Status]
    /\ version \in [Config -> 0..MaxVersion]
    /\ recent \subseteq Watcher
    /\ stranded \subseteq Watcher

Init ==
    /\ row = [w \in Watcher |-> None]
    /\ unread = {}
    /\ entry = [w \in Watcher |-> 0]
    /\ signature = row
    /\ made = entry
    /\ inst = [i \in Instance |-> None]
    /\ version = [c \in Config |-> 0]
    /\ recent = {}
    /\ stranded = {}

-----------------------------------------------------------------------------
\* reload() and what it does to instances.

Wanted(r) == r \notin {None, Gone} /\ r.on

\* A new instance: a poll sets out at once, a file is watched from now on.
Spawn(w, c) ==
    [cfg |-> c, armed |-> TRUE, polling |-> c \in Polled,
     asked |-> IF c \in Polled THEN {version[c]} ELSE {},
     seen |-> IF c \in Polled THEN None ELSE version[c],
     timer |-> FALSE, held |-> w \in recent, told |-> 0]

\* Can a timer or an answer still call the instance?
Kept(r) == IF r.armed \/ r.timer \/ r.asked # {} THEN r ELSE None

\* Mutant of Halt: stop() leaves the debounce timer and what waits for it.
HaltPending(i) == Kept([inst[i] EXCEPT !.armed = FALSE])

\* stop(): a poll in flight goes on.
Halt(i) == Kept([inst[i] EXCEPT !.armed = FALSE, !.timer = FALSE])

\* Entries whose signature is not that of the row, or that are missing.
Differs(rows) == {w \in Watcher : Wanted(rows[w]) /\
                     (entry[w] = 0 \/ signature[w] # rows[w].cfg)}
Made(rows) == {w \in Differs(rows) : rows[w].cfg \notin Faulty}
Left(rows) == {w \in Watcher : entry[w] # 0 /\ (~Wanted(rows[w]) \/ w \in Differs(rows))}

\* The instance of a row that differs is stopped before its successor is made; if
\* that fails, the stopped one keeps its entry.
Reload(rows) ==
    /\ \A w \in Made(rows) : made[w] < MaxInstances
    /\ unread' = {}
    /\ made' = [w \in Watcher |-> IF w \in Made(rows) THEN made[w] + 1 ELSE made[w]]
    /\ entry' = [w \in Watcher |-> IF ~Wanted(rows[w]) THEN 0
                                   ELSE IF w \in Made(rows) THEN made[w] + 1 ELSE entry[w]]
    /\ signature' = [w \in Watcher |-> IF ~Wanted(rows[w]) THEN None
                                       ELSE IF w \in Made(rows) THEN rows[w].cfg ELSE signature[w]]
    /\ inst' = [i \in Instance |->
                  LET w == i[1]
                  IN  IF w \in Left(rows) /\ i[2] = entry[w] /\ inst[i] # None THEN Halt(i)
                      ELSE IF w \in Made(rows) /\ i[2] = made[w] + 1 THEN Spawn(w, rows[w].cfg)
                      ELSE inst[i]]
    /\ stranded' = {w \in (stranded \cup Left(rows)) \ Made(rows) : Wanted(rows[w])}

-----------------------------------------------------------------------------
\* Rows are created, changed and deleted.

Edits(w) == CASE row[w] = None -> [on : {TRUE}, cfg : Config]
              [] row[w] = Gone -> {}
              [] OTHER -> Row \cup {Gone}

\* POST, PATCH, DELETE /api/watchers.
RouteEdit(w) ==
    \E r \in Edits(w) :
        /\ row' = [row EXCEPT ![w] = r]
        /\ Reload(row')
        /\ UNCHANGED <<version, recent>>

\* The watcher tool writes the store and tells nobody.
ToolEdit(w) ==
    \E r \in Edits(w) :
        /\ row' = [row EXCEPT ![w] = r]
        /\ unread' = unread \cup {w}
        /\ UNCHANGED <<entry, signature, made, inst, version, recent, stranded>>

-----------------------------------------------------------------------------
\* Sources change, instances see it.

Up(i) == inst[i] # None /\ inst[i].armed

\* fire(): the cool-down is judged by the row the instance was made from.
Fired(r, v) ==
    IF r.held THEN r ELSE [r EXCEPT !.told = v]

Trigger(i) == recent' = IF inst[i].held THEN recent ELSE recent \cup {i[1]}

Change(c) ==
    /\ version[c] < MaxVersion
    /\ version' = [version EXCEPT ![c] = @ + 1]
    /\ inst' = [i \in Instance |-> IF Up(i) /\ inst[i].cfg = c /\ c \in Watched
                                   THEN [inst[i] EXCEPT !.timer = TRUE] ELSE inst[i]]
    /\ UNCHANGED <<row, unread, entry, signature, made, recent, stranded>>

\* Mutant of Poll: the interval does not ask whether a poll is in flight.
PollOverlapping(i) ==
    /\ Up(i) /\ inst[i].cfg \in Polled
    /\ inst' = [inst EXCEPT ![i].polling = TRUE, ![i].asked = @ \cup {version[inst[i].cfg]}]
    /\ UNCHANGED <<row, unread, entry, signature, made, version, recent, stranded>>

\* The interval's poll, up to its fetch.
Poll(i) ==
    /\ Up(i) /\ inst[i].cfg \in Polled /\ ~inst[i].polling
    /\ inst' = [inst EXCEPT ![i].polling = TRUE, ![i].asked = @ \cup {version[inst[i].cfg]}]
    /\ UNCHANGED <<row, unread, entry, signature, made, version, recent, stranded>>

\* The answer: the first one seeds, a differing one is fired.
Answered(i) ==
    /\ inst[i] # None
    /\ \E a \in inst[i].asked :
       \E v \in a..version[inst[i].cfg] :
          LET r == [inst[i] EXCEPT !.polling = FALSE, !.asked = @ \ {a}, !.seen = v]
              news == inst[i].seen \notin {None, v}
          IN  /\ inst' = [inst EXCEPT ![i] = Kept(IF news THEN Fired(r, v) ELSE r)]
              /\ IF news THEN Trigger(i) ELSE UNCHANGED recent
    /\ UNCHANGED <<row, unread, entry, signature, made, version, stranded>>

\* Mutant of PollFailed: an answer that is an error returns without the flag.
PollFailedFlagged(i) ==
    /\ inst[i] # None
    /\ \E a \in inst[i].asked : inst' = [inst EXCEPT ![i] = Kept([inst[i] EXCEPT !.asked = @ \ {a}])]
    /\ UNCHANGED <<row, unread, entry, signature, made, version, recent, stranded>>

\* No answer, or one that is an error.
PollFailed(i) ==
    /\ inst[i] # None
    /\ \E a \in inst[i].asked :
          inst' = [inst EXCEPT ![i] = Kept([inst[i] EXCEPT !.asked = @ \ {a}, !.polling = FALSE])]
    /\ UNCHANGED <<row, unread, entry, signature, made, version, recent, stranded>>

\* The debounce window closes over the changes of it.
WindowCloses(i) ==
    /\ inst[i] # None /\ inst[i].timer
    /\ LET v == version[inst[i].cfg]
       IN  inst' = [inst EXCEPT ![i] = Kept(Fired([inst[i] EXCEPT !.timer = FALSE, !.seen = v], v))]
    /\ Trigger(i)
    /\ UNCHANGED <<row, unread, entry, signature, made, version, stranded>>

\* Time passes: the trigger an instance was made with is never the later one.
HeldEnds(i) ==
    /\ inst[i] # None /\ inst[i].held
    /\ inst' = [inst EXCEPT ![i].held = FALSE]
    /\ UNCHANGED <<row, unread, entry, signature, made, version, recent, stranded>>

CoolDownEnds(w) ==
    /\ w \in recent
    /\ \A i \in Instance : i[1] = w /\ inst[i] # None => ~inst[i].held
    /\ recent' = recent \ {w}
    /\ UNCHANGED <<row, unread, entry, signature, made, inst, version, stranded>>

Next ==
    \/ \E w \in Watcher : RouteEdit(w) \/ ToolEdit(w) \/ CoolDownEnds(w)
    \/ \E c \in Polled \cup Watched : Change(c)
    \/ \E i \in Instance :
         Poll(i) \/ Answered(i) \/ PollFailed(i) \/ WindowCloses(i) \/ HeldEnds(i)

\* Timers fire, requests end, and do not fail for ever.
Fairness == \A i \in Instance : WF_vars(Poll(i)) /\ SF_vars(Answered(i)) /\ WF_vars(WindowCloses(i))

Spec == Init /\ [][Next]_vars /\ Fairness

-----------------------------------------------------------------------------

\* No instance but the one reload() has on record runs; once a reload has read a
\* row, it runs exactly if the row asks for it and with the row's configuration,
\* unless the row names what cannot be watched, or did so when its instance was
\* replaced (reload).
FollowsRows ==
    \A w \in Watcher :
        LET up == {i \in Instance : i[1] = w /\ Up(i)}
        IN  /\ up \subseteq {<<w, entry[w]>>}
            /\ w \notin unread =>
                 IF Wanted(row[w])
                 THEN IF up = {} THEN row[w].cfg \in Faulty \/ w \in stranded
                      ELSE \A i \in up : inst[i].cfg = row[w].cfg
                 ELSE up = {}

\* A stopped instance reports at most once more, with the request that was in
\* flight; a file watcher not at all (the two stop()).
StoppedIsQuiet ==
    \A i \in Instance : inst[i] # None /\ ~inst[i].armed =>
        ~inst[i].timer /\ Cardinality(inst[i].asked) = 1

\* What runs, and reports, is what the rows ask for.
WatchersFollowRows == FollowsRows /\ StoppedIsQuiet

\* Each report of an instance is newer than the one before: however slow an answer,
\* the source is not reported to have changed back (poll).
ReportsAreNews ==
    [][(\A i \in Instance :
            inst[i] = None \/ inst'[i] = None \/ inst'[i].told >= inst[i].told)]_vars

\* A change after the first look is reported, unless the instance is stopped first
\* or was made within the cool-down of its watcher (poll, schedule, fire).
ChangeIsReported ==
    \A i \in Instance :
        (Up(i) /\ ~inst[i].held /\ inst[i].seen # None /\ inst[i].seen # version[inst[i].cfg])
            ~> (~Up(i) \/ inst[i].told = version[inst[i].cfg])

\* The comment at the head of WatcherRunner: "when a watcher fires, we respect its
\* __cooldownSeconds (same as the webhook path)".  Refuted: the row is the one the
\* instance was made from.
CooldownIsKept ==
    [][(\A i \in Instance : inst[i] # None /\ inst'[i] # None /\ i[1] \in recent =>
            inst'[i].told = inst[i].told)]_vars
=============================================================================
