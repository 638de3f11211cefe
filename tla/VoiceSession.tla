---------------------------- MODULE VoiceSession ----------------------------
(***************************************************************************)
(* One connected voice conversation (src/src/voice): the states of           *)
(* VoiceSession, the replies its turns stream, and the speech adapter that    *)
(* buffers their sentences and speaks them on a flush.  Speech recognition is *)
(* outside: its events come at any time.  The buffer, thinking and            *)
(* cancellation timers are set exactly in the states they are tested in.      *)
(***************************************************************************)
EXTENDS Naturals, FiniteSets

CONSTANTS
    MaxTurns,    \* turns of the user, a bound
    MaxPrompts,  \* prompts after a silence, a bound
    MaxRequests, \* requests to the speech provider at once, a bound
    None

VARIABLES
    state,        \* VoiceSession._state
    heard,        \* is transcriptBuffer not empty
    silenceTimer, \* is it set
    prompts,      \* prompts so far
    turns,        \* turns begun
    reply,        \* the reply of each turn: "none", "going" or "over"
    sentence,     \* turns whose sentenceBuffer is not empty
    text,         \* whose text is in the adapter's buffer
    request,      \* requests under way: whose text, and how far
    control,      \* the request abortController belongs to
    interrupted,  \* turns the user has interrupted
    outlived,     \* interrupted turns the interruption could not end
    stale,        \* interrupted turns heard afterwards
    silent        \* did the turn end without a sound

session == <<state, heard, silenceTimer, prompts, turns>>
replies == <<reply, sentence>>
speech == <<text, request, control>>
ghosts == <<interrupted, outlived, stale, silent>>
vars == <<session, replies, speech, ghosts>>

Turn == 1..MaxTurns
Request == 1..MaxRequests
Own == 0         \* the session's own voice: its prompts and apologies
Closed == state = "disconnected"

TypeOK ==
    /\ state \in {"listening", "capturing", "buffering", "thinking", "filler", "speaking",
                  "cancelling", "disconnected"}
    /\ heard \in BOOLEAN /\ silenceTimer \in BOOLEAN /\ prompts \in 0..MaxPrompts /\ turns \in 0..MaxTurns
    /\ reply \in [Turn -> {"none", "going", "over"}] /\ sentence \subseteq Turn
    /\ text \subseteq Turn \cup {Own}
    /\ request \in [Request -> {None} \cup
                       [said : SUBSET (Turn \cup {Own}), phase : {"asked", "playing", "aborted"}]]
    /\ control \in Request \cup {None}
    /\ interrupted \subseteq Turn /\ outlived \subseteq Turn /\ stale \subseteq Turn
    /\ silent \in BOOLEAN

Init ==
    /\ state = "listening" /\ heard = FALSE /\ silenceTimer = TRUE /\ prompts = 0 /\ turns = 0
    /\ reply = [t \in Turn |-> "none"] /\ sentence = {}
    /\ text = {} /\ request = [r \in Request |-> None] /\ control = None
    /\ interrupted = {} /\ outlived = {} /\ stale = {} /\ silent = FALSE

Live(r) == request[r] # None /\ request[r].phase # "aborted"
Said == UNION {request[r].said : r \in {q \in Request : Live(q)}}

-----------------------------------------------------------------------------
(* The speech adapter (OpenAITTS).                                         *)

\* flush() with what is in the buffer.
Flush(said) ==
    IF Closed \/ said = {} THEN text' = said /\ UNCHANGED <<request, control>>
    ELSE \E r \in Request :
            /\ request[r] = None /\ \A q \in Request : request[q] = None => r <= q
            /\ request' = [request EXCEPT ![r] = [said |-> said, phase |-> "asked"]]
            /\ control' = r /\ text' = {}

\* Mutant of Cancel: the buffered text is kept.
CancelKeeps ==
    /\ request' = [r \in Request |-> IF r = control /\ request[r] # None
                                     THEN [request[r] EXCEPT !.phase = "aborted"] ELSE request[r]]
    /\ control' = None /\ UNCHANGED text

\* cancel(): the request the controller belongs to is aborted, and no other.
Cancel ==
    /\ request' = [r \in Request |-> IF r = control /\ request[r] # None
                                     THEN [request[r] EXCEPT !.phase = "aborted"] ELSE request[r]]
    /\ control' = None /\ text' = {}

\* Audio is played, unless an interruption is under way.
Audio(r) ==
    /\ Live(r)
    /\ request' = [request EXCEPT ![r].phase = "playing"]
    /\ IF state \in {"cancelling", "disconnected"} THEN UNCHANGED <<session, stale>>
       ELSE /\ state' = IF state \in {"thinking", "filler"} THEN "speaking" ELSE state
            /\ stale' = stale \cup (request[r].said \cap interrupted)
            /\ UNCHANGED <<heard, silenceTimer, prompts, turns>>
    /\ UNCHANGED <<replies, text, control, interrupted, outlived, silent>>

\* Mutant of Flushed: the end of the speech is not acted upon.
FlushedIgnored(r) ==
    /\ Live(r)
    /\ request' = [request EXCEPT ![r] = None] /\ control' = None
    /\ silent' = (silent \/ request[r].phase = "asked")
    /\ UNCHANGED <<session, replies, text, interrupted, outlived, stale>>

\* The request is over; its end clears the controller, whose-ever it is.
Flushed(r) ==
    /\ Live(r)
    /\ request' = [request EXCEPT ![r] = None] /\ control' = None
    /\ state' = IF state = "speaking" THEN "listening" ELSE state
    /\ silenceTimer' = (silenceTimer \/ state = "speaking")
    /\ silent' = (silent \/ request[r].phase = "asked")
    /\ UNCHANGED <<heard, prompts, turns, replies, text, interrupted, outlived, stale>>

\* The provider fails, or the abort takes effect; the controller is cleared if the
\* answer had begun.
SpeechFails(r) ==
    /\ request[r] # None
    /\ request' = [request EXCEPT ![r] = None]
    /\ control' \in {control, None}
    /\ silent' = (silent \/ Live(r))
    /\ UNCHANGED <<session, replies, text, interrupted, outlived, stale>>

-----------------------------------------------------------------------------
(* The user.                                                               *)

\* Entering "cancelling".
Interrupt ==
    /\ state' = "cancelling"
    /\ Cancel
    /\ interrupted' = 1..turns
    /\ outlived' = outlived \cup
         ((UNION {request[r].said : r \in {q \in Request \ {control} : Live(q)}}) \ {Own})
    /\ UNCHANGED <<heard, silenceTimer, prompts, turns, replies, stale, silent>>

\* speech_started, and the user interrupting by hand.  While the agent speaks an
\* early start is taken for an echo.
SpeechStarted ==
    \/ /\ state = "listening"
       /\ state' = "capturing" /\ silenceTimer' = FALSE
       /\ UNCHANGED <<heard, prompts, turns, replies, speech, ghosts>>
    \/ state \in {"speaking", "filler"} /\ Interrupt

InterruptByHand == state \in {"speaking", "thinking"} /\ Interrupt

\* A hundred milliseconds later the session listens again, whatever has noticed.
CancelOver ==
    /\ state = "cancelling"
    /\ state' = "listening" /\ silenceTimer' = TRUE
    /\ outlived' = outlived \cup {t \in Turn : reply[t] = "going"}
    /\ UNCHANGED <<heard, prompts, turns, replies, speech, interrupted, stale, silent>>

\* A final transcript.
Transcript ==
    /\ ~Closed
    /\ heard' = TRUE
    /\ state' = IF state = "capturing" THEN "buffering" ELSE state
    /\ UNCHANGED <<silenceTimer, prompts, turns, replies, speech, ghosts>>

\* processTranscript, at the end of the utterance or when no more is heard: noise
\* and known hallucinations are dropped, anything else is a turn.
ProcessTranscript ==
    /\ state \in {"capturing", "buffering"}
    /\ heard' = FALSE
    /\ UNCHANGED <<prompts, sentence, speech, interrupted, outlived, stale>>
    /\ \/ /\ state' = "listening" /\ silenceTimer' = TRUE
          /\ UNCHANGED <<turns, reply, silent>>
       \/ /\ heard /\ turns < MaxTurns
          /\ state' = "thinking" /\ turns' = turns + 1
          /\ reply' = [reply EXCEPT ![turns + 1] = "going"]
          /\ silent' = FALSE
          /\ UNCHANGED silenceTimer

Filler ==
    /\ state = "thinking"
    /\ state' = "filler"
    /\ UNCHANGED <<heard, silenceTimer, prompts, turns, replies, speech, ghosts>>

\* After two minutes of silence.
SilencePrompt ==
    /\ state = "listening" /\ silenceTimer /\ prompts < MaxPrompts
    /\ silenceTimer' = FALSE /\ prompts' = prompts + 1
    /\ Flush(text \cup {Own})
    /\ UNCHANGED <<state, heard, turns, replies, ghosts>>

Disconnect ==
    /\ ~Closed
    /\ state' = "disconnected" /\ silenceTimer' = FALSE
    /\ Cancel
    /\ UNCHANGED <<heard, prompts, turns, replies, ghosts>>

-----------------------------------------------------------------------------
(* The reply of a turn.                                                    *)

\* The loop is left: what is in the buffers is flushed.
Finish(t, voice, said) ==
    /\ reply' = [reply EXCEPT ![t] = "over"] /\ sentence' = sentence \ {t}
    /\ Flush(said)
    /\ silent' = (silent \/ (t = turns /\ voice \notin said \cup Said))
    /\ UNCHANGED <<session, interrupted, outlived, stale>>

\* A token: a reply that is cancelled ends, any other grows, by sentences.
Token(t) ==
    /\ reply[t] = "going"
    /\ IF state \in {"cancelling", "disconnected"}
       THEN Finish(t, t, text)
       ELSE /\ \/ sentence' = sentence \cup {t} /\ text' = text
               \/ sentence' = sentence \ {t} /\ text' = text \cup {t}
            /\ UNCHANGED <<session, reply, request, control, ghosts>>

\* The reply is complete.
Complete(t) ==
    /\ reply[t] = "going"
    /\ Finish(t, t, IF t \in sentence /\ state \notin {"cancelling", "disconnected"} THEN text \cup {t} ELSE text)

\* The agent failed: the session says so.
AgentFails(t) ==
    /\ reply[t] = "going"
    /\ Finish(t, Own, IF Closed THEN text ELSE text \cup {Own})

Next ==
    \/ SpeechStarted \/ InterruptByHand \/ CancelOver \/ Transcript \/ ProcessTranscript
    \/ Filler \/ SilencePrompt \/ Disconnect
    \/ \E t \in Turn : Token(t) \/ Complete(t) \/ AgentFails(t)
    \/ \E r \in Request : Audio(r) \/ Flushed(r) \/ SpeechFails(r)

Spec == Init /\ [][Next]_vars

\* Timers fire, the agent ends its turns (60 s), and the speech provider answers.
Fairness ==
    /\ WF_vars(CancelOver) /\ WF_vars(state = "buffering" /\ ProcessTranscript)
    /\ \A t \in Turn : WF_vars(Complete(t) \/ AgentFails(t))
    /\ \A r \in Request : WF_vars(Flushed(r) \/ SpeechFails(r))

FairSpec == Spec /\ Fairness

-----------------------------------------------------------------------------

\* "Handles interruptions": of an interrupted turn nothing is heard any more,
\* unless its reply sent no token while the interruption lasted, or was being
\* spoken by a request that was no longer the adapter's last.
InterruptedIsSilent == stale \subseteq outlived

\* The microphone is muted while the agent thinks and speaks (receiveAudio).  It
\* opens again after every turn that made a sound.
MicReopens ==
    state \in {"buffering", "thinking", "filler", "speaking", "cancelling"} ~>
        state \in {"listening", "disconnected"} \/ silent
=============================================================================
