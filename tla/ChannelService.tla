--------------------------- MODULE ChannelService ---------------------------
(***************************************************************************)
(* What the RIL promises the upper layer, with the AT commands, the two    *)
(* threads and the session queue left out: a request is accepted, the      *)
(* requests queued on a channel are served one at a time in the order of   *)
(* their arrival, and each request is completed once.  (ril.h: every       *)
(* request is answered by exactly one RIL_onRequestComplete.)              *)
(***************************************************************************)
EXTENDS Naturals, Sequences

CONSTANTS
    Channels,      \* the channels requests are queued on
    MaxRequests,   \* bound on the requests submitted
    NoToken        \* the value of serving[c] when channel c serves nothing

VARIABLES
    submitted,     \* number of requests accepted; request t has token t
    waiting,       \* [c -> the tokens queued on c, oldest first]
    serving,       \* [c -> the token c works on, or NoToken]
    direct,        \* tokens whose handler answers without a queue
    completed      \* tokens that were answered

svcVars == <<submitted, waiting, serving, direct, completed>>

Tokens == 1..MaxRequests

Next1 == submitted + 1

Init ==
    /\ submitted = 0
    /\ waiting = [c \in Channels |-> <<>>]
    /\ serving = [c \in Channels |-> NoToken]
    /\ direct = {}
    /\ completed = {}

Accept == submitted < MaxRequests /\ submitted' = Next1

\* A request that needs the modem's answer joins the queue of its channel.
Enqueue(c) ==
    /\ Accept
    /\ waiting' = [waiting EXCEPT ![c] = Append(@, Next1)]
    /\ UNCHANGED <<serving, direct, completed>>

\* A request the handler works on by itself ...
Handle ==
    /\ Accept
    /\ direct' = direct \cup {Next1}
    /\ UNCHANGED <<waiting, serving, completed>>

\* ... or answers on the spot.
AnswerAtOnce ==
    /\ Accept
    /\ completed' = completed \cup {Next1}
    /\ UNCHANGED <<waiting, serving, direct>>

Answer(t) ==
    /\ t \in direct
    /\ direct' = direct \ {t}
    /\ completed' = completed \cup {t}
    /\ UNCHANGED <<submitted, waiting, serving>>

\* A free channel takes the oldest request of its queue.
Begin(c) ==
    /\ serving[c] = NoToken /\ waiting[c] # <<>>
    /\ serving' = [serving EXCEPT ![c] = Head(waiting[c])]
    /\ waiting' = [waiting EXCEPT ![c] = Tail(@)]
    /\ UNCHANGED <<submitted, direct, completed>>

\* The request a channel works on is answered and the channel is free.
Finish(c) ==
    /\ serving[c] # NoToken
    /\ completed' = completed \cup {serving[c]}
    /\ serving' = [serving EXCEPT ![c] = NoToken]
    /\ UNCHANGED <<submitted, waiting, direct>>

Next ==
    \/ \E c \in Channels : Enqueue(c) \/ Begin(c) \/ Finish(c)
    \/ Handle
    \/ AnswerAtOnce
    \/ \E t \in Tokens : Answer(t)

\* Whatever was accepted is worked on and answered.
Fairness ==
    /\ \A c \in Channels : WF_svcVars(Begin(c)) /\ WF_svcVars(Finish(c))
    /\ \A t \in Tokens : WF_svcVars(Answer(t))

Spec == Init /\ [][Next]_svcVars

LiveSpec == Spec /\ Fairness

=============================================================================
