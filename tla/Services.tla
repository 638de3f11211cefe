------------------------------ MODULE Services ------------------------------
(***************************************************************************)
(* Four small parts of the server that share no state, checked in one run:   *)
(* the initial state says which of them moves, and the others stay where      *)
(* they begin.  Their properties are theirs alone, so an interleaving of two  *)
(* of them could show no more.                                               *)
(***************************************************************************)
EXTENDS ScanQueue

CONSTANTS MaxText, MaxRounds, Cap, Channel, Op, MaxInstances, Goal, Tick, MaxFailures

VARIABLES
    part,
    round, made, narrated, turn, streaming, connected, buffer, first, failed, stopped, unsent, timer, calls, ready,
    final, shown, replies, lost,
    alive, running, disposed, op, overlap,
    active, due, tick, failures, chat, checks, overlapped

Reply == INSTANCE ChannelReply WITH running <- connected, pending <- unsent
Chan == INSTANCE Channels
Pulse == INSTANCE GoalPulse

replyVars == <<round, made, narrated, turn, streaming, connected, buffer, first, failed, stopped, unsent, timer, calls,
               ready, final, shown, replies, lost>>
channelVars == <<alive, running, disposed, op, overlap>>
goalVars == <<active, due, tick, failures, chat, checks, overlapped>>
allVars == <<part, vars, replyVars, channelVars, goalVars>>

ASSUME ServicesAssumption ==
    /\ None \notin Goal \cup Channel \cup Op
    /\ MaxFailures \in Nat \ {0} /\ MaxInstances \in Nat /\ MaxText \in Nat /\ MaxRounds \in Nat

ASSUME NoneIsNoOperation == None \notin Chan!Operation \cup Pulse!Check

ServicesInit ==
    /\ part \in {"scan", "reply", "channels", "goals"}
    /\ Init /\ Reply!Init /\ Chan!Init /\ Pulse!Init

ServicesNext ==
    /\ UNCHANGED part
    /\ \/ part = "scan" /\ Next /\ UNCHANGED <<replyVars, channelVars, goalVars>>
       \/ part = "reply" /\ Reply!Next /\ UNCHANGED <<vars, channelVars, goalVars>>
       \/ part = "channels" /\ Chan!Next /\ UNCHANGED <<vars, replyVars, goalVars>>
       \/ part = "goals" /\ Pulse!Next /\ UNCHANGED <<vars, replyVars, channelVars>>

\* Each part is as fair as its own specification says; a part that stays where it
\* begins has no step to be fair about.
ServicesSpec ==
    /\ ServicesInit /\ [][ServicesNext]_allVars
    /\ \A f \in File : WF_vars(Finish(f))
    /\ Reply!Fairness /\ Pulse!Fairness

\* A completed reply is in the chat as a whole, at the end of the streamed message
\* or as messages of its own (deliverFinal, over the edits of StreamingEditor),
\* unless the platform refused it, the channels were stopped, or it did not all come
\* as deltas and earlier rounds of the task had filled the stream's buffer.
WholeReplyShown == Reply!WholeReplyShown
\* deliverFinal's drain ends, however edits fail, wait for each other and keep
\* coming: every reply is delivered or given up.
ReplySettles == Reply!ReplySettles
\* Whatever start, stop, startAll, stopAll and reload came and went, a channel none
\* of them is at is up exactly when it is registered, unless two were at it at once
\* or its stop threw.
RegisteredIsAlive == Chan!RegisteredIsAlive
\* GoalPulse checks a goal once each time its cron passes, unless a tick found it
\* due while an earlier one was still at it.
OncePerSlot == Pulse!OncePerSlot
\* A goal that stays active and due is checked by some tick, however long the
\* checks of others take and however they end.
DueIsServed == Pulse!DueIsServed
=============================================================================
