------------------------------ MODULE McpBridge ------------------------------
(***************************************************************************)
(* One integration backed by a remote MCP server: the accounts of its store *)
(* (IntegrationStore), the refreshes IntegrationManager has in flight, and   *)
(* its listeners, the crew sync and MCPIntegrationBridge, which keeps the    *)
(* newest account's token in a cache and the server of MCPManager connected. *)
(* The user switches the server and the crew too, through the API and the    *)
(* agent's manage_mcp tool.                                                 *)
(* Listeners are coroutines: they give the event loop up where they await a  *)
(* refresh or the discovery of the server's tools, and for the rest of a     *)
(* batch of microtasks where connect() awaits disconnect().  When a token    *)
(* comes near its expiry is open here; module TokenRefresh has the clock.    *)
(***************************************************************************)
EXTENDS Naturals, Sequences, FiniteSets, SequencesExt

CONSTANTS
    Account,
    MaxTokens,    \* tokens a provider issues, a bound
    MaxHandlers,  \* listeners under way at once, a bound
    MaxRestarts,
    MaxSwitches,  \* switches of the user, a bound
    None

Handler == 1..MaxHandlers
Token == 1..MaxTokens
Known == 0

\* The server's entry in mcp.json.
Setting == {"on", "off", "gone"}

VARIABLES
    order,      \* accounts of the store, the last connected first
    token,      \* the stored token of each account
    near,       \* accounts whose token is near its expiry
    issued,     \* tokens issued so far
    inflight,   \* refreshInflight: the token each refresh set out with
    handler,    \* listeners and other callers of connect()
    cache,      \* MCPIntegrationBridge.tokenCache
    setting,    \* the server in mcp.json: enabled, disabled, or not there
    server,     \* MCPManager.servers: the handler that discovers it, then Known
    orphans,    \* server entries overwritten without being closed
    crew,       \* is the integration's crew registered
    staged,     \* does IntegrationCrewSync hold the crew
    barred,     \* is the crew in DAEMORA_DISABLED_CREWS
    locked,     \* is the vault locked
    crossed,    \* did an account change hands under a refresh, or the newest one under a wait
    revived,    \* did a refresh store an account that was disconnected meanwhile
    primed,     \* has the bridge stored a token since the process started
    wish,       \* what was decided last of the server: its setting, and is it to have an entry
    overtaken,  \* was the server given up while a new account's listener waited
    byHand,     \* did the user show the crew since the accounts last decided
    restarts, switches

store == <<order, token, near>>
bridge == <<cache, setting, server, orphans>>
crews == <<crew, staged, barred, byHand>>
decided == <<wish, overtaken>>
ghost == <<crossed, revived, primed>>
vars == <<store, issued, inflight, handler, bridge, crews, locked, decided, ghost, restarts, switches>>

Free == [kind |-> "none", pc |-> "free", acct |-> None, tok |-> None]

TypeOK ==
    /\ order \in Seq(Account) /\ IsInjective(order)
    /\ token \in [Account -> Token \cup {None}]
    /\ near \subseteq Account
    /\ issued \in 0..MaxTokens
    /\ inflight \in [Account -> Token \cup {None}]
    /\ handler \in [Handler -> [kind : {"none", "connected", "refreshed", "seed", "load", "reload"},
                                pc : {"free", "token", "run", "yield", "discover"},
                                acct : Account \cup {None}, tok : Token \cup {None}]]
    /\ cache \in Token \cup {None}
    /\ setting \in Setting
    /\ server \in Handler \cup {Known, None}
    /\ orphans \in 0..MaxTokens
    /\ crew \in BOOLEAN /\ staged \in BOOLEAN /\ barred \in BOOLEAN /\ byHand \in BOOLEAN
    /\ locked \in BOOLEAN
    /\ wish \in [setting : Setting, entry : BOOLEAN] /\ overtaken \in BOOLEAN
    /\ crossed \in BOOLEAN /\ revived \in BOOLEAN /\ primed \in BOOLEAN
    /\ restarts \in 0..MaxRestarts /\ switches \in 0..MaxSwitches

Init ==
    /\ order = <<>>
    /\ token = [a \in Account |-> None]
    /\ near = {}
    /\ issued = 0
    /\ inflight = [a \in Account |-> None]
    /\ handler = [h \in Handler |-> Free]
    /\ cache = None /\ setting = "off" /\ server = None /\ orphans = 0
    /\ crew = FALSE /\ staged = TRUE /\ barred = FALSE /\ byHand = FALSE
    /\ locked = TRUE
    /\ wish = [setting |-> "off", entry |-> FALSE] /\ overtaken = FALSE
    /\ crossed = FALSE /\ revived = FALSE /\ primed = TRUE
    /\ restarts = 0 /\ switches = 0

-----------------------------------------------------------------------------

\* Between two macrotasks: no listener has microtasks left.
Quiet == \A h \in Handler : handler[h].pc \notin {"run", "yield"}

FreeHandlers == {h \in Handler : handler[h].pc = "free"}
Slot == CHOOSE h \in FreeHandlers : TRUE

\* refreshToken: getAccessToken of the integration's newest account, for an order,
\* tokens and near expiries that may just have changed.  It awaits a refresh, or
\* has the token at once.
Ask(kind, ord, tok, nr) ==
    IF locked \/ ord = <<>> THEN [kind |-> kind, pc |-> "run", acct |-> None, tok |-> None]
    ELSE IF Head(ord) \in nr THEN [kind |-> kind, pc |-> "token", acct |-> Head(ord), tok |-> None]
    ELSE [kind |-> kind, pc |-> "run", acct |-> None, tok |-> tok[Head(ord)]]

\* The refreshes in flight once someone waits as ask does: one per account.
Joined(fl, ask, tok) ==
    IF ask.pc = "token" /\ fl[ask.acct] = None THEN [fl EXCEPT ![ask.acct] = tok[ask.acct]] ELSE fl

Newest(ord) == IF ord = <<>> THEN None ELSE Head(ord)

\* An account of as changes hands while it is being refreshed, or the newest
\* account changes while a listener waits for a token.
Crossing(as, ord) ==
    \/ \E a \in as : inflight[a] # None
    \/ Newest(ord) # Newest(order) /\ \E h \in Handler : handler[h].pc = "token"

\* A decision about the server, and one that gives it up: by then a listener that
\* has yet to enable it may be waiting for its token.
Decides(set, entry) == wish' = [setting |-> set, entry |-> entry]
GivesUp(set, entry) ==
    /\ Decides(set, entry)
    /\ overtaken' = (overtaken \/ \E h \in Handler : handler[h].pc = "token" /\ handler[h].kind = "connected")

-----------------------------------------------------------------------------
(* IntegrationManager.                                                     *)

\* upsert: a row that exists keeps its connected_at.
Upserted(a) == IF Contains(order, a) THEN order ELSE <<a>> \o order

\* Mutant of Connect: the crew sync and the bridge ask first, the account is
\* stored afterwards.
ConnectTellsFirst(a) ==
    /\ Quiet /\ ~locked /\ issued < MaxTokens /\ FreeHandlers # {}
    /\ issued' = issued + 1
    /\ order' = Upserted(a)
    /\ token' = [token EXCEPT ![a] = issued + 1]
    /\ near' = near \ {a}
    /\ LET ask == Ask("connected", order, token, near)
       IN  /\ handler' = [handler EXCEPT ![Slot] = ask]
           /\ inflight' = Joined(inflight, ask, token)
    /\ crew' = (crew \/ staged)
    /\ Decides(IF setting = "gone" THEN wish.setting ELSE "on", setting # "gone" \/ wish.entry)
    /\ crossed' = (crossed \/ Crossing({a}, Upserted(a)))
    /\ UNCHANGED <<bridge, staged, barred, byHand, locked, overtaken, revived, primed, restarts>>

\* completeAuth from the answer to the code exchange on: the account is stored,
\* its crew revealed if it was there at startup, and the bridge starts, which will
\* enable the server unless mcp.json has none.
Connect(a) ==
    /\ Quiet /\ ~locked /\ issued < MaxTokens /\ FreeHandlers # {}
    /\ issued' = issued + 1
    /\ order' = Upserted(a)
    /\ token' = [token EXCEPT ![a] = issued + 1]
    /\ near' = near \ {a}
    /\ LET ask == Ask("connected", order', token', near')
       IN  /\ handler' = [handler EXCEPT ![Slot] = ask]
           /\ inflight' = Joined(inflight, ask, token')
    /\ crew' = (crew \/ staged)
    /\ Decides(IF setting = "gone" THEN wish.setting ELSE "on", setting # "gone" \/ wish.entry)
    /\ crossed' = (crossed \/ Crossing({a}, order'))
    /\ UNCHANGED <<bridge, staged, barred, byHand, locked, overtaken, revived, primed, restarts>>

\* The row of a is deleted.
Without(a) == RemoveAt(order, CHOOSE i \in DOMAIN order : order[i] = a)

\* setEnabled(false) leaves a server alone that mcp.json does not have.
AllOff == IF setting = "gone" THEN "gone" ELSE "off"

\* Mutant of Disconnect: the listeners look for other accounts before this one is
\* removed.
DisconnectStale(a) ==
    /\ Quiet /\ Contains(order, a)
    /\ order' = Without(a)
    /\ token' = [token EXCEPT ![a] = None]
    /\ near' = near \ {a}
    /\ crossed' = (crossed \/ Crossing({a}, order'))
    /\ FreeHandlers # {}
    /\ LET ask == Ask("refreshed", order', token', near')
       IN  /\ handler' = [handler EXCEPT ![Slot] = ask]
           /\ inflight' = Joined(inflight, ask, token')
    /\ IF order' = <<>> THEN GivesUp(AllOff, FALSE) ELSE UNCHANGED decided
    /\ UNCHANGED <<bridge, crews, issued, locked, revived, primed, restarts>>

\* disconnect: the crew is hidden and the server given up with the last account.
Disconnect(a) ==
    /\ Quiet /\ Contains(order, a)
    /\ order' = Without(a)
    /\ token' = [token EXCEPT ![a] = None]
    /\ near' = near \ {a}
    /\ crossed' = (crossed \/ Crossing({a}, order'))
    /\ IF order' = <<>>
       THEN /\ cache' = None /\ setting' = AllOff /\ server' = None
            /\ GivesUp(AllOff, FALSE)
            /\ crew' = FALSE /\ byHand' = FALSE
            /\ UNCHANGED <<handler, inflight, orphans, staged, barred>>
       ELSE /\ FreeHandlers # {}
            /\ LET ask == Ask("refreshed", order', token', near')
               IN  /\ handler' = [handler EXCEPT ![Slot] = ask]
                   /\ inflight' = Joined(inflight, ask, token')
            /\ UNCHANGED <<bridge, crews, decided>>
    /\ UNCHANGED <<issued, locked, revived, primed, restarts>>

\* A token comes near its expiry.
Age(a) ==
    /\ Quiet /\ Contains(order, a) /\ a \notin near
    /\ near' = near \cup {a}
    /\ UNCHANGED <<order, token, issued, inflight, handler, bridge, crews, locked, decided, ghost, restarts>>

\* A tool, the timer or a background pass asks for the token of a, or a tool
\* forces a refresh.
Use(a) ==
    /\ Quiet /\ ~locked /\ Contains(order, a) /\ inflight[a] = None
    /\ inflight' = [inflight EXCEPT ![a] = token[a]]
    /\ UNCHANGED <<store, issued, handler, bridge, crews, locked, decided, ghost, restarts>>

Resumed(a, tok) ==
    [h \in Handler |-> IF handler[h].pc = "token" /\ handler[h].acct = a
                       THEN [handler[h] EXCEPT !.pc = "run", !.acct = None, !.tok = tok] ELSE handler[h]]

\* doRefresh, granted: the token is stored whatever became of the account, the
\* bridge hears of it, and the listeners that awaited it go on.
Refreshed(a) ==
    /\ Quiet /\ inflight[a] # None /\ issued < MaxTokens /\ FreeHandlers # {}
    /\ issued' = issued + 1
    /\ order' = Upserted(a)
    /\ token' = [token EXCEPT ![a] = issued + 1]
    /\ near' = near \ {a}
    /\ LET ask == Ask("refreshed", order', token', near')
       IN  /\ handler' = [Resumed(a, issued + 1) EXCEPT ![Slot] = ask]
           /\ inflight' = Joined([inflight EXCEPT ![a] = None], ask, token')
    /\ crossed' = (crossed \/ Crossing({}, order'))
    /\ revived' = (revived \/ ~Contains(order, a))
    /\ UNCHANGED <<bridge, crews, locked, decided, primed, restarts>>

\* doRefresh, refused: who waited gets the token the refresh set out with.
RefreshFailed(a) ==
    /\ Quiet /\ inflight[a] # None
    /\ handler' = Resumed(a, inflight[a])
    /\ inflight' = [inflight EXCEPT ![a] = None]
    /\ UNCHANGED <<store, issued, bridge, crews, locked, decided, ghost, restarts>>

-----------------------------------------------------------------------------
(* MCPIntegrationBridge and MCPManager.connect.                            *)

\* connect() up to its first await: an entry there is is closed, and the new one
\* registered only after the microtasks that are queued by then.
Connecting(h) ==
    /\ handler' = [handler EXCEPT ![h].pc = IF server = None THEN "discover" ELSE "yield", ![h].tok = None]
    /\ server' = IF server = None THEN h ELSE None
    /\ orphans' = orphans

Done(h) == handler' = [handler EXCEPT ![h] = Free]

\* A listener that has its token: the cache is set, and after a connection the
\* server, if mcp.json has one, enabled and connected; at startup it is reconnected
\* if it is enabled.
Proceed(h) ==
    /\ handler[h].pc = "run"
    /\ cache' = handler[h].tok
    /\ primed' = (primed \/ handler[h].tok # None)
    /\ IF \/ handler[h].kind = "connected" /\ setting # "gone"
          \/ handler[h].kind = "seed" /\ handler[h].tok # None /\ setting = "on"
       THEN setting' = "on" /\ Connecting(h)
       ELSE Done(h) /\ UNCHANGED <<setting, server, orphans>>
    /\ UNCHANGED <<store, issued, inflight, crews, locked, decided, crossed, revived, restarts>>

\* connect() goes on: its entry is registered over whatever is there.
Register(h) ==
    /\ handler[h].pc = "yield"
    /\ handler' = [handler EXCEPT ![h].pc = "discover"]
    /\ server' = h
    /\ orphans' = IF server = None THEN orphans ELSE orphans + 1
    /\ UNCHANGED <<store, issued, inflight, cache, setting, crews, locked, decided, ghost, restarts>>

\* The discovery ends, well or in an error its entry keeps; the entry may be gone by
\* then.
Discovered(h) ==
    /\ Quiet /\ handler[h].pc = "discover"
    /\ Done(h)
    /\ server' = IF server = h THEN Known ELSE server
    /\ UNCHANGED <<store, issued, inflight, cache, setting, orphans, crews, locked, decided, ghost, restarts>>

-----------------------------------------------------------------------------
(* The user's switches.                                                    *)

\* A caller of connect(), as Connecting, or of disconnect() and then connect(), which
\* gives the event loop up whether there is an entry or not.
Calls(pc) ==
    /\ FreeHandlers # {}
    /\ handler' = [handler EXCEPT ![Slot] = [Free EXCEPT !.kind = "reload", !.pc = pc]]
    /\ server' = IF pc = "discover" THEN Slot ELSE None

ConnectPc == IF server = None THEN "discover" ELSE "yield"

\* The server is enabled, or added to mcp.json, and connected.
SwitchOn ==
    /\ Quiet
    /\ setting' = "on" /\ \E pc \in {ConnectPc, "yield"} : Calls(pc)
    /\ Decides("on", TRUE)
    /\ UNCHANGED <<store, issued, inflight, cache, orphans, crews, locked, overtaken, ghost, restarts>>

\* It is disabled, or removed from mcp.json, and disconnected.
SwitchOff(set) ==
    /\ Quiet /\ setting # "gone"
    /\ setting' = set /\ server' = None
    /\ GivesUp(set, FALSE)
    /\ UNCHANGED <<store, issued, inflight, handler, cache, orphans, crews, locked, ghost, restarts>>

\* PATCH /api/mcp/:name disables it, or it is added disabled: loadAll disconnects
\* nothing.
EditOff ==
    /\ Quiet
    /\ setting' = "off"
    /\ GivesUp("off", server # None)
    /\ UNCHANGED <<store, issued, inflight, handler, cache, server, orphans, crews, locked, ghost, restarts>>

\* DELETE /api/mcp/:name: disconnected, and mcp.json as it was.
Drop ==
    /\ Quiet
    /\ server' = None
    /\ GivesUp(setting, FALSE)
    /\ UNCHANGED <<store, issued, inflight, handler, cache, setting, orphans, crews, locked, ghost, restarts>>

\* Connected with mcp.json as it was: an enabled server after the edit of any
\* (loadAll), one whose configuration the request brings (POST /api/mcp), or one that
\* is disconnected first, enabled or not (reload, reconnect).
Reload ==
    /\ Quiet
    /\ Calls(ConnectPc) \/ (setting # "gone" /\ Calls("yield"))
    /\ Decides(wish.setting, TRUE)
    /\ UNCHANGED <<store, issued, inflight, cache, setting, orphans, crews, locked, overtaken, ghost, restarts>>

\* The crew is enabled, or loaded again from disk, and registered.
ShowCrew ==
    /\ Quiet
    /\ crew' = TRUE /\ byHand' = TRUE
    /\ barred' \in {barred, FALSE}
    /\ UNCHANGED <<store, issued, inflight, handler, bridge, staged, locked, decided, ghost, restarts>>

DisableCrew ==
    /\ Quiet
    /\ crew' = FALSE /\ barred' = TRUE
    /\ UNCHANGED <<store, issued, inflight, handler, bridge, staged, byHand, locked, decided, ghost, restarts>>

Switches ==
    /\ switches < MaxSwitches /\ switches' = switches + 1
    /\ \/ SwitchOn \/ (\E set \in {"off", "gone"} : SwitchOff(set)) \/ EditOff \/ Drop \/ Reload
       \/ ShowCrew \/ DisableCrew

-----------------------------------------------------------------------------
(* The process.                                                            *)

Unlock ==
    /\ Quiet /\ locked
    /\ locked' = FALSE
    /\ UNCHANGED <<store, issued, inflight, handler, bridge, crews, decided, ghost, restarts>>

\* The process dies and starts again, with the vault locked: the bridge seeds its
\* cache, all enabled servers are connected, with a server that mcp.json lacks listed
\* as disabled, and the crews of stored accounts revealed unless the user disabled
\* them.
Restart ==
    /\ Quiet /\ restarts < MaxRestarts
    /\ restarts' = restarts + 1
    /\ locked' = TRUE
    /\ inflight' = [a \in Account |-> None]
    /\ handler' = [h \in Handler |->
          IF h = 1 /\ order # <<>> THEN [Free EXCEPT !.kind = "seed", !.pc = "run"]
          ELSE IF h = 2 /\ setting = "on" THEN [Free EXCEPT !.kind = "load", !.pc = "discover"]
          ELSE Free]
    /\ cache' = None
    /\ setting' = IF setting = "gone" THEN "off" ELSE setting
    /\ server' = IF setting = "on" THEN 2 ELSE None
    /\ orphans' = 0
    /\ GivesUp(IF wish.setting = "gone" THEN "off" ELSE wish.setting, wish.setting = "on")
    /\ staged' = ~barred /\ crew' = (~barred /\ order # <<>>)
    /\ byHand' = FALSE
    /\ primed' = (order = <<>>)
    /\ UNCHANGED <<store, issued, barred, crossed, revived>>

Next ==
    \/ /\ UNCHANGED switches
       /\ \/ \E a \in Account :
                Connect(a) \/ Disconnect(a) \/ Age(a) \/ Use(a) \/ Refreshed(a) \/ RefreshFailed(a)
          \/ \E h \in Handler : Proceed(h) \/ Register(h) \/ Discovered(h)
          \/ Unlock \/ Restart
    \/ Switches

Spec == Init /\ [][Next]_vars

-----------------------------------------------------------------------------

\* No listener waits for a token or is about to use one.
Settled == \A h \in Handler : handler[h].pc \in {"free", "discover"}

\* MCPIntegrationBridge.ts: "multiple accounts under one integration share one
\* token cache slot (most-recent wins)".  Once the listeners have settled the
\* cache holds the stored token of the newest account, unless that changed while
\* one of them waited, or the vault was locked when the bridge started.
CacheIsNewest ==
    Settled /\ ~crossed /\ primed => cache = (IF order = <<>> THEN None ELSE token[Head(order)])

\* Once the listeners have settled the server is set, and has an entry, connected or
\* in error, as was decided last, by an account that was connected, the last one
\* disconnected, or the user: a server the user gave up comes back only by such a
\* decision, unless the listener of a new account was waiting to enable it.
ServerFollowsDecisions ==
    Settled /\ ~overtaken => setting = wish.setting /\ (server # None <=> wish.entry)

\* The crew is shown without an account only if the user showed it, and an account
\* is connected without its crew only if the user disabled it, in this process or
\* before it started, or a refresh in flight brought the account back.
CrewFollowsDecisions ==
    /\ crew => order # <<>> \/ byHand
    /\ order # <<>> /\ ~crew => revived \/ barred \/ ~staged

\* An entry of MCPManager is lost, its process running on, only where connect()
\* had given up an earlier one and yielded.
OrphansOnlyByYield == [][orphans' > orphans => \E h \in Handler : handler[h].pc = "yield"]_vars
=============================================================================
