----------------------------- MODULE Listeners -----------------------------
(***************************************************************************)
(* A voice session and the watchers, which share no state, side by side as   *)
(* Services has its parts: the initial state says which moves.               *)
(***************************************************************************)
EXTENDS Watchers

CONSTANTS MaxTurns, MaxPrompts, MaxRequests

VARIABLES
    part,
    state, heard, silenceTimer, prompts, turns, reply, sentence, text, request, control, interrupted,
    outlived, stale, silent

Voice == INSTANCE VoiceSession

voiceVars == <<state, heard, silenceTimer, prompts, turns, reply, sentence, text, request, control,
               interrupted, outlived, stale, silent>>
allVars == <<part, vars, voiceVars>>

\* Bounds are numbers.
ASSUME ListenersAssumption == MaxTurns \in Nat /\ MaxPrompts \in Nat /\ MaxRequests \in Nat

ListenersInit ==
    /\ part \in {"voice", "watchers"}
    /\ Init /\ Voice!Init

ListenersNext ==
    /\ UNCHANGED part
    /\ \/ part = "voice" /\ Voice!Next /\ UNCHANGED vars
       \/ part = "watchers" /\ Next /\ UNCHANGED voiceVars

ListenersSpec ==
    /\ ListenersInit /\ [][ListenersNext]_allVars
    /\ Fairness /\ Voice!Fairness

\* Of a turn the user has interrupted nothing is heard any more, but for what the
\* interruption could not reach (handleCancellation, cancel of the speech adapter).
InterruptedIsSilent == Voice!InterruptedIsSilent
\* After a turn the session listens again, unless the turn made no sound
\* (onTTSFlushed, handleCancellation).
MicReopens == Voice!MicReopens
=============================================================================
