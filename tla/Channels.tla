------------------------------ MODULE Channels ------------------------------
(***************************************************************************)
(* The life of the channels ChannelManager (src/src/channels) runs: started *)
(* and stopped one by one from the API, all at once at boot, by a reload and *)
(* on the vault's events.  Each operation is a coroutine that awaits the     *)
(* start or stop of a channel, with the others going on in between.          *)
(***************************************************************************)
EXTENDS Naturals, FiniteSets

CONSTANTS
    Channel,   \* channels whose secrets are configured
    Op,        \* operations that may be under way at once, a bound
    MaxInstances, \* instances of a channel at once, a bound
    None

VARIABLES
    alive,     \* instances of each channel that poll or listen
    running,   \* ChannelManager.running
    disposed,  \* ChannelManager.disposed
    op,        \* operations under way: what they do, have done, and await
    overlap    \* channels an operation touched while another was at them, or whose stop threw

vars == <<alive, running, disposed, op, overlap>>

Kind == {"start", "startAll", "stop", "stopAll"}

\* reload: stopAll, then startAll; both are part of it.
Operation == [kind : Kind, done : SUBSET Channel, at : Channel \cup {None}, reload : BOOLEAN]

TypeOK ==
    /\ alive \in [Channel -> 0..MaxInstances]
    /\ running \subseteq Channel
    /\ disposed \in BOOLEAN
    /\ op \in [Op -> Operation \cup {None}]
    /\ overlap \subseteq Channel

Init ==
    /\ alive = [c \in Channel |-> 0]
    /\ running = {}
    /\ disposed = FALSE
    /\ op = [o \in Op |-> None]
    /\ overlap = {}

Free == {o \in Op : op[o] = None}

\* An operation that awaits nothing has a microtask to run.
Quiet == \A o \in Op : op[o] # None => op[o].at # None

Begin(kind, done, at, reload) ==
    \E o \in Free : op' = [op EXCEPT ![o] = [kind |-> kind, done |-> done, at |-> at, reload |-> reload]]

\* An operation other than o awaits c, or stops every channel.
Busy(o, c) == \E p \in Op \ {o} : op[p] # None /\ (op[p].at = c \/ op[p].kind = "stopAll")

Touch(o, c) == overlap' = IF Busy(o, c) THEN overlap \cup {c} ELSE overlap

Awaited == {c \in Channel : \E p \in Op : op[p] # None /\ op[p].at = c}

-----------------------------------------------------------------------------

\* start(id): what runs is left alone, and reported as started.
Start(c) ==
    /\ Quiet
    /\ IF c \in running
       THEN UNCHANGED op /\ Touch(None, c)
       ELSE Begin("start", {}, c, FALSE) /\ Touch(None, c)
    /\ UNCHANGED <<alive, running, disposed>>

Stop(c) ==
    /\ Quiet /\ c \in running
    /\ Begin("stop", {}, c, FALSE) /\ Touch(None, c)
    /\ UNCHANGED <<alive, running, disposed>>

\* startAll, at boot and when the vault is unlocked.
StartAll ==
    /\ Quiet
    /\ Begin("startAll", {}, None, FALSE)
    /\ UNCHANGED <<alive, running, disposed, overlap>>

\* stopAll, when the vault is locked; a reload starts all channels afterwards.
StopAll(reload) ==
    /\ Quiet
    /\ disposed' = TRUE
    /\ Begin("stopAll", {}, None, reload)
    /\ overlap' = overlap \cup Awaited
    /\ UNCHANGED <<alive, running>>

\* A second login: the vault is locked and unlocked in one breath, and the
\* listeners of both events begin.
SecondLogin ==
    /\ Quiet
    /\ disposed' = TRUE
    /\ \E o \in Free : \E p \in Free \ {o} :
          op' = [op EXCEPT ![o] = [kind |-> "stopAll", done |-> {}, at |-> None, reload |-> FALSE],
                           ![p] = [kind |-> "startAll", done |-> {}, at |-> None, reload |-> FALSE]]
    /\ overlap' = overlap \cup Awaited
    /\ UNCHANGED <<alive, running>>

\* An operation on all channels goes to its next one, or ends.  startAll takes
\* the channels that do not run by then, stopAll those that do.
Advance(o) ==
    /\ op[o] # None /\ op[o].at = None
    /\ LET left == (IF op[o].kind = "startAll" THEN Channel \ running ELSE running) \ op[o].done
       IN  IF left # {}
           THEN \E c \in left :
                   /\ op' = [op EXCEPT ![o].at = c, ![o].done = @ \cup {c}]
                   /\ Touch(o, c)
                   /\ running' = running
           ELSE /\ op' = [op EXCEPT ![o] =
                     IF @.kind = "stopAll" /\ @.reload THEN [@ EXCEPT !.kind = "startAll", !.done = {}] ELSE None]
                /\ running' = IF op[o].kind = "stopAll" THEN {} ELSE running
                /\ UNCHANGED overlap
    /\ UNCHANGED <<alive, disposed>>

\* Where an operation goes on after its await.
Resumed(o) == IF op[o].kind \in {"startAll", "stopAll"} THEN [op[o] EXCEPT !.at = None] ELSE None

\* startChannel: the channel is up and registered, or it failed to start.
Started(o) ==
    /\ Quiet /\ op[o] # None /\ op[o].kind \in {"start", "startAll"}
    /\ LET c == op[o].at
       IN  \/ alive[c] < MaxInstances /\ alive' = [alive EXCEPT ![c] = @ + 1] /\ running' = running \cup {c}
           \/ UNCHANGED <<alive, running>>
    /\ op' = [op EXCEPT ![o] = Resumed(o)]
    /\ UNCHANGED <<disposed, overlap>>

\* Mutant of Stopped: the channel stays registered.
StoppedListed(o) ==
    /\ Quiet /\ op[o] # None /\ op[o].kind \in {"stop", "stopAll"}
    /\ LET c == op[o].at
       IN  alive' = [alive EXCEPT ![c] = IF @ = 0 THEN 0 ELSE @ - 1]
    /\ op' = [op EXCEPT ![o] = Resumed(o)]
    /\ UNCHANGED <<running, disposed, overlap>>

\* A channel has stopped, or its stop threw and it goes on; stop() unregisters it in
\* either case at once, stopAll at the end.  A stopAll under way comes to it again if it
\* is registered again.
Stopped(o) ==
    /\ Quiet /\ op[o] # None /\ op[o].kind \in {"stop", "stopAll"}
    /\ LET c == op[o].at
           single == op[o].kind = "stop"
       IN  /\ \/ alive' = [alive EXCEPT ![c] = IF @ = 0 THEN 0 ELSE @ - 1] /\ overlap' = overlap
              \/ alive' = alive /\ overlap' = overlap \cup {c}
           /\ running' = IF single THEN running \ {c} ELSE running
           /\ op' = [p \in Op |-> CASE p = o -> Resumed(o)
                                    [] p # o /\ single /\ op[p] # None /\ op[p].kind = "stopAll" ->
                                           [op[p] EXCEPT !.done = @ \ {c}]
                                    [] OTHER -> op[p]]
    /\ UNCHANGED disposed

Next ==
    \/ \E c \in Channel : Start(c) \/ Stop(c)
    \/ StartAll \/ SecondLogin \/ \E reload \in BOOLEAN : StopAll(reload)
    \/ \E o \in Op : Advance(o) \/ Started(o) \/ Stopped(o)

Spec == Init /\ [][Next]_vars

-----------------------------------------------------------------------------

\* start.ts: startAll "skips already-running channels, so a second firing won't
\* double-poll".  A channel polls twice only after two operations were at it at
\* once, or after its stop threw.
OneInstance == \A c \in Channel : alive[c] > 1 => c \in overlap

\* Whatever operations came and went, a channel that none of them is at is up
\* exactly when it is registered, unless two were at it at once or its stop threw.
RegisteredIsAlive ==
    \A c \in Channel \ overlap : ~Busy(None, c) => (alive[c] = 1 <=> c \in running)

\* The startAll of an unlock has gone through the channels, and nothing else is under way.
UnlockDone(o) ==
    /\ op[o] # None /\ op[o].kind = "startAll" /\ ~op[o].reload
    /\ op[o].at = None /\ Channel \subseteq running \cup op[o].done
    /\ \A p \in Op \ {o} : op[p] = None

\* start.ts: startAll is fired "on every UI-driven unlock so users who unlock from the
\* browser don't have to manually reload channels".  The channels it started, and that no
\* other operation was at meanwhile, take the messages they get (handleIncoming).
UnlockListens == \A o \in Op : UnlockDone(o) /\ disposed => running \cap op[o].done \subseteq overlap
=============================================================================
