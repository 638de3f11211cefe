---------------------------- MODULE ChannelReply ----------------------------
(***************************************************************************)
(* One task's reply on its way to a chat: the stream ChannelManager         *)
(* (src/src/channels) edits in place while the text arrives, the throttled  *)
(* loop of StreamingEditor behind it, and deliverFinal, which drains the     *)
(* stream and decides whether the reply must be sent again as a whole.       *)
(* A task takes several rounds when messages were queued behind it; each     *)
(* ends with a text of its own, and the last one's is the reply.  A text is  *)
(* its length, and how much of which round's it tells.  A flush is a         *)
(* coroutine: it runs until it awaits a call to the platform, and those that *)
(* await the same call go on in the order in which they began to wait,       *)
(* before anything else happens.                                             *)
(***************************************************************************)
EXTENDS Naturals, Sequences

CONSTANTS
    MaxText,     \* length of the text of a round, a bound
    MaxRounds,   \* rounds of the task's loop, a bound
    Cap          \* maxMessageLength of the channel

VARIABLES
    round,       \* rounds of the loop begun
    made,        \* length of the text the round has produced so far
    narrated,    \* has some of it come otherwise than as deltas
    turn,        \* "on", "ended" by text:end, then the verdict of the task
    streaming,   \* does ChannelManager.streams hold the stream
    running,     \* does ChannelManager.running hold the channel
    buffer,      \* StreamState.buffer
    first,       \* is firstMessageId set
    failed,      \* StreamState.failed
    stopped,     \* StreamState.stopped
    pending,     \* pendingText of the loop
    timer,       \* is the loop's timer set
    calls,       \* calls of sendOrEdit the platform has not answered, and who waits
    ready,       \* coroutines the answer of a call resumes
    final,       \* deliverFinal: "idle", "flush", "decide", "send", "done"
    shown,       \* text the streamed message shows
    replies,     \* whole replies sent by sendReply
    lost         \* did the platform refuse a call in silence, or refuse the reply

turns == <<round, made, narrated, turn>>
stream == <<streaming, running, buffer, first, failed, stopped>>
loop == <<pending, timer, calls, ready>>
chat == <<shown, replies, lost>>
vars == <<turns, stream, loop, final, chat>>

\* size characters, of which the last `of` tell of the round numbered turn.
Text == [size : Nat, turn : Nat, of : Nat]
Empty == [size |-> 0, turn |-> 0, of |-> 0]

\* n characters of this round; t with one character more; t tells it all.
Told(n) == [size |-> n, turn |-> round, of |-> n]
Longer(t) == [size |-> t.size + 1, turn |-> round, of |-> (IF t.turn = round THEN t.of ELSE 0) + 1]
Whole(t) == t.turn = round /\ t.of = made

Flush == {"loop", "final"}

TypeOK ==
    /\ round \in Nat /\ made \in Nat /\ narrated \in BOOLEAN /\ turn \in {"on", "ended", "completed", "failed"}
    /\ streaming \in BOOLEAN /\ running \in BOOLEAN
    /\ buffer \in Text /\ first \in BOOLEAN /\ failed \in BOOLEAN /\ stopped \in BOOLEAN
    /\ pending \in Text /\ timer \in BOOLEAN
    /\ calls \subseteq [text : Text, by : Flush, waiting : Seq(Flush)]
    /\ ready \in Seq([flush : Flush, sent : {"true", "false", "wait"}, text : Text])
    /\ final \in {"idle", "flush", "decide", "send", "done"}
    /\ shown \in Text /\ replies \in 0..1 /\ lost \in BOOLEAN

Init ==
    /\ round = 1 /\ made = 0 /\ narrated = FALSE /\ turn = "on"
    /\ streaming = TRUE /\ running = TRUE
    /\ buffer = Empty /\ first = FALSE /\ failed = FALSE /\ stopped = FALSE
    /\ pending = Empty /\ timer = FALSE /\ calls = {} /\ ready = <<>>
    /\ final = "idle"
    /\ shown = Empty /\ replies = 0 /\ lost = FALSE

\* A text above the cap is refused without a call.
Refused == \E c \in calls : c.text.size > Cap

\* No coroutine can go on: the event loop takes the next event.
Quiet == ready = <<>> /\ final # "decide" /\ ~Refused

-----------------------------------------------------------------------------
(* The loop.  flush() is its while loop, from its head to the next await.   *)

\* The body of the loop for flush f, when text is pending: it leaves, waits for
\* the call in flight, or makes one.
Iterate(f, text) ==
    IF stopped' \/ (calls = {} /\ text = Empty)
    THEN /\ pending' = text /\ calls' = calls
         /\ final' = IF f = "final" THEN "decide" ELSE final
    ELSE /\ pending' = IF calls = {} THEN Empty ELSE text
         /\ calls' = IF calls = {} THEN {[text |-> text, by |-> f, waiting |-> <<>>]}
                     ELSE {[c EXCEPT !.waiting = Append(@, f)] : c \in calls}
         /\ final' = IF f = "final" THEN "flush" ELSE final

\* update(): with a call in flight, or before the throttle is over, the timer is
\* set; else the text is flushed at once.
Update(text) ==
    IF stopped THEN UNCHANGED <<loop, final>>
    ELSE /\ ready' = ready
         /\ \/ /\ pending' = text /\ timer' = TRUE
               /\ UNCHANGED <<calls, final>>
            \/ /\ calls = {} /\ ~timer
               /\ timer' = FALSE
               /\ Iterate("loop", text)

TimerFires ==
    /\ Quiet /\ timer
    /\ timer' = FALSE
    /\ UNCHANGED <<turns, stream, ready, chat>>
    /\ Iterate("loop", pending)

\* Mutant of Answered: a text above the cap does not count as a failure.
AnsweredUncapped(c) ==
    /\ ready = <<>> /\ final # "decide"
    /\ calls' = calls \ {c}
    /\ \E sent \in BOOLEAN, done \in BOOLEAN :
          /\ c.text.size > Cap => ~sent /\ ~done
          /\ failed' = (failed \/ (~sent /\ c.text.size <= Cap))
          /\ first' = (first \/ (sent /\ done))
          /\ shown' = IF done THEN c.text ELSE shown
          /\ lost' = (lost \/ (sent /\ ~done))
          /\ ready' = <<[flush |-> c.by, sent |-> IF sent THEN "true" ELSE "false", text |-> c.text]>>
                \o [i \in DOMAIN c.waiting |-> [flush |-> c.waiting[i], sent |-> "wait", text |-> Empty]]
    /\ UNCHANGED <<turns, streaming, running, buffer, stopped, pending, timer, final, replies>>

\* The platform answers a call; whether a call that failed was carried out all the
\* same is open, and some channels swallow the platform's error.
Answered(c) ==
    /\ ready = <<>> /\ final # "decide"
    /\ calls' = calls \ {c}
    /\ \E sent \in BOOLEAN, done \in BOOLEAN :
          /\ c.text.size > Cap => ~sent /\ ~done
          /\ failed' = (failed \/ ~sent)
          /\ first' = (first \/ (sent /\ done))
          /\ shown' = IF done THEN c.text ELSE shown
          /\ lost' = (lost \/ (sent /\ ~done))
          /\ ready' = <<[flush |-> c.by, sent |-> IF sent THEN "true" ELSE "false", text |-> c.text]>>
                \o [i \in DOMAIN c.waiting |-> [flush |-> c.waiting[i], sent |-> "wait", text |-> Empty]]
    /\ UNCHANGED <<turns, streaming, running, buffer, stopped, pending, timer, final, replies>>

\* Mutant of GoOn: a refused text is put back and tried again at once.
GoOnRetrying ==
    /\ ready # <<>>
    /\ ready' = Tail(ready)
    /\ UNCHANGED <<turns, stream, timer, chat>>
    /\ LET r == Head(ready)
       IN  IF r.sent = "true" /\ pending = Empty
           THEN /\ final' = IF r.flush = "final" THEN "decide" ELSE final
                /\ UNCHANGED <<pending, calls>>
           ELSE Iterate(r.flush, IF r.sent = "false" THEN r.text ELSE pending)

\* A coroutine goes on after its await.  Its own call failed: the text is put
\* back, over any newer one, and the flush is over.
GoOn ==
    /\ ready # <<>>
    /\ ready' = Tail(ready)
    /\ UNCHANGED <<turns, stream, timer, chat>>
    /\ LET r == Head(ready)
       IN  CASE r.sent = "false" -> /\ pending' = r.text
                                    /\ final' = IF r.flush = "final" THEN "decide" ELSE final
                                    /\ UNCHANGED calls
             [] r.sent = "true" /\ pending = Empty ->
                                    /\ final' = IF r.flush = "final" THEN "decide" ELSE final
                                    /\ UNCHANGED <<pending, calls>>
             [] OTHER -> Iterate(r.flush, pending)

-----------------------------------------------------------------------------
(* ChannelManager.                                                         *)

\* onTextDelta.
Delta ==
    /\ Quiet /\ turn = "on" /\ made < MaxText
    /\ made' = made + 1
    /\ IF ~streaming \/ stopped \/ failed
       THEN UNCHANGED <<stream, loop, final>>
       ELSE /\ buffer' = Longer(buffer)
            /\ UNCHANGED <<streaming, running, first, failed, stopped>>
            /\ Update(buffer')
    /\ UNCHANGED <<round, narrated, turn, chat>>

\* onTextEnd, whether the stream has failed or not: a text shorter than what the
\* buffer has is not taken over.
Ends(text) ==
    IF ~streaming \/ stopped
    THEN UNCHANGED <<stream, loop, final>>
    ELSE /\ buffer' = IF text.size >= buffer.size THEN text ELSE buffer
         /\ UNCHANGED <<streaming, running, first, failed, stopped>>
         /\ Update(buffer')

\* reply_to_user: a message of n characters, in the middle of a round, with a
\* text:end of its own.
Narrates(n) ==
    /\ Quiet /\ turn = "on" /\ made + n <= MaxText
    /\ made' = made + n /\ narrated' = TRUE
    /\ Ends(Told(n))
    /\ UNCHANGED <<round, turn, chat>>

\* The round's text:end, with all its text, or, if it has none, with the reasoning
\* or a note of n characters.
TextEnd(n) ==
    /\ Quiet /\ turn = "on" /\ made \in {0, n}
    /\ turn' = "ended"
    /\ made' = n /\ narrated' = (narrated \/ made = 0)
    /\ Ends(Told(n))
    /\ UNCHANGED <<round, chat>>

\* Messages were queued: the loop goes on, and the stream with it.
NextRound ==
    /\ Quiet /\ turn = "ended" /\ round < MaxRounds
    /\ round' = round + 1
    /\ made' = 0 /\ narrated' = FALSE /\ turn' = "on"
    /\ UNCHANGED <<stream, loop, final, chat>>

\* deliverFinal up to its first await: the stream is drained.
ReplyNeeded(verdict) ==
    /\ Quiet /\ turn \in {"on", "ended"}
    /\ verdict = "completed" => turn = "ended"
    /\ turn' = verdict
    /\ UNCHANGED <<round, made, narrated, stream, ready, chat>>
    /\ IF streaming
       THEN timer' = FALSE /\ Iterate("final", pending)
       ELSE final' = (IF running THEN "send" ELSE "done") /\ UNCHANGED <<pending, timer, calls>>

\* deliverFinal after the drain: nothing more is to be done if the stream never
\* failed and has its message.
Decide ==
    /\ final = "decide"
    /\ stopped' = TRUE /\ pending' = Empty /\ timer' = FALSE
    /\ LET streamed == ~failed /\ first /\ turn # "failed"
       IN  /\ final' = IF streamed THEN "done" ELSE "send"
           /\ streaming' = (streaming /\ ~streamed)
    /\ UNCHANGED <<turns, running, buffer, first, failed, calls, ready, chat>>

\* The reply is sent whole, in chunks; an error is logged.
SendReply ==
    /\ Quiet /\ final = "send"
    /\ final' = "done" /\ streaming' = FALSE
    /\ \/ replies' = replies + 1 /\ lost' = lost
       \/ replies' = replies /\ lost' = TRUE
    /\ UNCHANGED <<turns, running, buffer, first, failed, stopped, loop, shown>>

\* stopAll.
StopAll ==
    /\ Quiet /\ running
    /\ running' = FALSE /\ streaming' = FALSE
    /\ stopped' = (stopped \/ streaming)
    /\ pending' = IF streaming THEN Empty ELSE pending
    /\ timer' = (timer /\ ~streaming)
    /\ UNCHANGED <<turns, buffer, first, failed, calls, ready, final, chat>>

Next ==
    \/ Delta \/ NextRound \/ \E n \in 1..MaxText : Narrates(n) \/ TextEnd(n)
    \/ \E verdict \in {"completed", "failed"} : ReplyNeeded(verdict)
    \/ TimerFires \/ GoOn \/ \E c \in calls : Answered(c)
    \/ Decide \/ SendReply \/ StopAll

Spec == Init /\ [][Next]_vars

\* Coroutines run, timers fire, and the platform answers.
Fairness ==
    /\ WF_vars(GoOn) /\ WF_vars(TimerFires) /\ WF_vars(Decide) /\ WF_vars(SendReply)
    /\ WF_vars(\E c \in calls : Answered(c))

FairSpec == Spec /\ Fairness

-----------------------------------------------------------------------------

\* StreamingEditor.ts: "coalesces in-flight sends, and never overlaps API calls",
\* whichever of update, timer and deliverFinal flushes.
NoOverlap == \A c, d \in calls : c = d

\* A completed reply, the text of the task's last round, is in the chat as a whole,
\* at the end of the streamed message or as messages of its own, unless the
\* platform refused it or the channels were stopped.  Nor is it promised when
\* earlier rounds have filled the buffer and some of it did not come as deltas.
WholeReplyShown ==
    final = "done" /\ turn = "completed" /\ running /\ ~lost /\ (round = 1 \/ ~narrated)
        => Whole(shown) \/ replies = 1

\* The drain ends: every reply is delivered or given up.
ReplySettles == turn \in {"completed", "failed"} ~> final = "done"
=============================================================================
