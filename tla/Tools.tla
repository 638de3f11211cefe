------------------------------- MODULE Tools -------------------------------
(***************************************************************************)
(* What a task's tools rest on: the crews it delegates to, the MCP server    *)
(* an integration brings, and the detector that lets its calls through.  The *)
(* three share no state and are checked in one run: the initial state says   *)
(* which of them moves, and the others stay where they begin.                *)
(***************************************************************************)
EXTENDS CrewRuns

CONSTANTS
    Account, MaxTokens, MaxHandlers, MaxRestarts, MaxSwitches,
    Repertoire, Sensitive, MultiAction

VARIABLES
    part,
    order, token, near, issued, inflight, handler, tokenCache, setting, server, orphans,
    synced, staged, barred, byHand, locked, wish, overtaken, crossed, revived, primed, restarts, switches,
    words, history, blocked

Bridge == INSTANCE McpBridge WITH cache <- tokenCache, crew <- synced
Loops == INSTANCE LoopDetector

bridgeVars == <<order, token, near, issued, inflight, handler, tokenCache, setting, server, orphans, synced,
                staged, barred, byHand, locked, wish, overtaken, crossed, revived, primed, restarts, switches>>
loopVars == <<words, history, blocked>>
allVars == <<part, vars, bridgeVars, loopVars>>

\* No account, token or listener is the absent one.
ASSUME ToolsAssumption == None \notin Account \cup Nat /\ MaxHandlers \in Nat

ToolsInit ==
    /\ part \in {"crews", "bridge", "loops"}
    /\ Init /\ Bridge!Init
    /\ Loops!Init /\ (part # "loops" => words = CHOOSE w \in Repertoire : TRUE)

ToolsNext ==
    /\ UNCHANGED part
    /\ \/ part = "crews" /\ Next /\ UNCHANGED <<bridgeVars, loopVars>>
       \/ part = "bridge" /\ Bridge!Next /\ UNCHANGED <<vars, loopVars>>
       \/ part = "loops" /\ Loops!Next /\ UNCHANGED <<vars, bridgeVars>>

ToolsSpec == ToolsInit /\ [][ToolsNext]_allVars

\* Once the bridge's listeners have settled its cache holds the stored token of the
\* newest account, unless that changed while one of them waited, or the vault was
\* locked when the bridge started (MCPIntegrationBridge).
CacheIsNewest == Bridge!CacheIsNewest
\* Once the bridge's listeners have settled the server of an integration is as the
\* accounts or the user decided last, and so is its crew, but for what a listener
\* that waited undoes and a late refresh revives (MCPIntegrationBridge: "user opt-in
\* still wins").
ToolsFollowDecisions == Bridge!ServerFollowsDecisions /\ Bridge!CrewFollowsDecisions
\* A model that goes round one, two or three calls is stopped within the window of
\* LoopDetector, but for the two rounds that are excused.
ShortLoopsEnd == Loops!ShortLoopsEnd
\* Calls the window has not seen are let through (LoopDetector), unless they poll.
NewWorkPasses == Loops!NewWorkPasses
=============================================================================
