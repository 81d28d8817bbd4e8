----------------------------- MODULE Dispatcher -----------------------------
(***************************************************************************)
(* The request dispatcher of marvell-ril.c on top of the AT channel layer: *)
(* the per-channel queue of request sessions, the IDLE/BUSY flag that      *)
(* arbitrates a channel, onRequest and the two timed callbacks on the      *)
(* command thread, onConfirm and postCallback on the reader thread.        *)
(*                                                                         *)
(* A session is a heap object; the model names it by the token of its      *)
(* request, heap[t] holds its fields and freed the objects given back to   *)
(* free().  descriptions[c].lastSession is the linked list, newest first.  *)
(* The upper layer numbers its requests 1, 2, ... in the order it submits  *)
(* them, so a token is also the request's place in arrival order.          *)
(***************************************************************************)
EXTENDS AtChannel, Bags

CONSTANTS
    Requests,        \* what the upper layer may ask for (see RequestOK)
    MaxRequests,     \* bound: number of requests submitted in a behaviour
    MAX_SESSION_ID   \* marvell-ril.h: session ids are counted modulo this

VARIABLES
    descriptions,    \* [c -> [lastSession, state]], under descriptions[c].mutex
    heap,            \* [token -> the requestSession allocated for it, or NULL]
    freed,           \* ghost: sessions given back to free()
    globalSessionID,
    timed,           \* bag of callbacks given to RIL_requestTimedCallback
    job,             \* what the command thread is running for libril
    conf,            \* the reader's frame inside onConfirm
    requests,        \* ghost: the requests submitted, by token
    completions,     \* ghost: calls of RIL_onRequestComplete per token
    served           \* ghost: per channel, the calls of at_send_command
                     \*        for sessions: command id and session, in order

queueVars == <<descriptions, heap, freed, globalSessionID>>
ghostDVars == <<requests, completions, served>>
dVars == <<queueVars, timed, job, conf, ghostDVars>>
vars == <<atVars, dVars>>

Tokens == 1..MaxRequests

ChannelStates == {"CHANNEL_IDLE", "CHANNEL_BUSY"}

Callbacks == {"callback_Default", "callback_Chain"}

\* struct requestSession, without cmdString and request (the shape stands
\* for type, responsePrefix, smsPdu and needResponse); "then" is the command
\* a chaining callback writes into the session.
Session ==
    [sessionID : 0..(MAX_SESSION_ID - 1), channelID : Channels,
     token : Tokens, shape : AsyncShapes, callback : Callbacks,
     then : AsyncShapes \cup {NULL}]

\* A request as the service handlers onRequest_xx classify it: continue_flag
\* 1 with the command and callback of a session, 2 after a synchronous
\* command of the handler's own, 0 when it was answered locally.
RequestOK(rq) ==
    /\ rq.continue_flag \in {0, 1, 2} /\ rq.channelID \in Channels
    /\ rq.continue_flag = 1 =>
          /\ rq.shape \in AsyncShapes /\ rq.callback \in Callbacks
          /\ (rq.callback = "callback_Chain") = (rq.then # NULL)
          /\ rq.then \in AsyncShapes \cup {NULL}
    /\ rq.continue_flag = 2 => rq.shape \in SyncShapes

ASSUME /\ \A rq \in Requests : RequestOK(rq)
       /\ MaxRequests \in Nat /\ MAX_SESSION_ID \in Nat \ {0}

ProcessNext(c) == [fn |-> "processNextRequest", channelID |-> c]
Continue(c) == [fn |-> "continueProcessRequest", channelID |-> c]

\* Mutant: the callback is never handed to libril.
Scheduled_Lost(cb) == timed

\* RIL_requestTimedCallback(cb, .., &TIMEVAL_0) and libril taking one to run.
Scheduled(cb) == timed (+) SetToBag({cb})
Taken(cb) == timed (-) SetToBag({cb})

IdleJob == [pc |-> "idle", fn |-> NULL, token |-> 0, channelID |-> NULL]
IdleConf == [pc |-> "idle", session |-> NULL]

DInit ==
    /\ AtInit
    /\ descriptions = [c \in Channels |->
                          [lastSession |-> <<>>, state |-> "CHANNEL_IDLE"]]
    /\ heap = [t \in Tokens |-> NULL]
    /\ freed = {}
    /\ globalSessionID = 0
    /\ timed = EmptyBag
    /\ job = IdleJob /\ conf = IdleConf
    /\ requests = <<>>
    /\ completions = [t \in Tokens |-> 0]
    /\ served = [c \in Channels |-> <<>>]

-----------------------------------------------------------------------------
(* The session queue.  Every function takes descriptions[c].mutex for its  *)
(* whole body, so each is one atomic step of the thread that calls it.     *)

Queue(c) == descriptions[c].lastSession

enqueueSession(c, s) ==
    [descriptions EXCEPT ![c].lastSession = <<s>> \o @]

\* The place of the first session with this id, from the newest; 0 if none.
FirstWithID(c, id) == SelectInSeq(Queue(c), LAMBDA s : heap[s].sessionID = id)

\* Mutant: the loop over tmp->next is missing; only the head is unlinked.
removeSession_HeadOnly(c, s) ==
    IF FirstWithID(c, heap[s].sessionID) = 1
    THEN [descriptions EXCEPT ![c].lastSession = <<>>]
    ELSE descriptions

\* Sessions are compared by sessionID; a match at the head sets lastSession
\* to NULL, which drops every older session with it.
removeSession(c, s) ==
    LET i == FirstWithID(c, heap[s].sessionID) IN
    [descriptions EXCEPT ![c].lastSession =
        IF i = 1 THEN <<>> ELSE RemoveAt(@, i)]

\* Mutant: processNextRequest finds nothing to do.
isSessionPending_Never(c) == 0

isSessionPending(c) == IF Queue(c) = <<>> THEN 0 ELSE 1

\* Mutant: the newest session instead of the end of the list.
getSession_Newest(c) == IF Queue(c) = <<>> THEN NULL ELSE Head(Queue(c))

\* The end of the list: the oldest session.
getSession(c) == IF Queue(c) = <<>> THEN NULL ELSE Last(Queue(c))

\* Mutant: the list is not walked, its head is returned.
findSessionByCookie_Newest(c, cookie) ==
    IF Queue(c) = <<>> THEN NULL ELSE Head(Queue(c))

findSessionByCookie(c, cookie) ==
    IF FirstWithID(c, cookie) = 0 THEN NULL ELSE Queue(c)[FirstWithID(c, cookie)]

\* Mutant: the channel is set idle, processNextRequest is not scheduled.
putChannel_NoCallback(c, d) ==
    /\ descriptions' = [d EXCEPT ![c].state = "CHANNEL_IDLE"]
    /\ timed' = timed

\* putChannel on the table d (the table as the caller's earlier queue
\* operation left it): a busy channel becomes idle and libril is asked to
\* run processNextRequest for it.
putChannel(c, d) ==
    /\ descriptions' = [d EXCEPT ![c].state = "CHANNEL_IDLE"]
    /\ timed' = IF d[c].state = "CHANNEL_BUSY"
                THEN Scheduled(ProcessNext(c)) ELSE timed

\* RIL_onRequestComplete(t, ...); the count is capped at 2.
Completed(t) == [completions EXCEPT ![t] = IF @ = 0 THEN 1 ELSE 2]

-----------------------------------------------------------------------------
(* The command thread.  libril runs one thing at a time on it: onRequest   *)
(* for a new request, or one of the callbacks it was asked to run.         *)

Free == ~fault /\ job.pc = "idle" /\ call.pc = "idle"

Submit(rq) ==
    /\ Free /\ rq \in Requests /\ Len(requests) < MaxRequests
    /\ requests' = Append(requests, rq)

\* continue_flag 0: the service handler answered the request itself.
onRequest_local(rq) ==
    /\ Submit(rq) /\ rq.continue_flag = 0
    /\ completions' = Completed(Len(requests) + 1)
    /\ UNCHANGED <<atVars, queueVars, timed, job, conf, served>>

\* continue_flag 2: the service handler sends a synchronous command.
onRequest_sync(rq) ==
    /\ Submit(rq) /\ rq.continue_flag = 2
    /\ StartCall("sync", rq.channelID, rq.shape, 0)
    /\ job' = [pc |-> "sync", fn |-> "onRequest", token |-> Len(requests) + 1,
               channelID |-> rq.channelID]
    /\ UNCHANGED <<chanVars, reader, modemVars, done, unsolSeen, fault>>
    /\ UNCHANGED <<queueVars, timed, conf, completions, served>>

\* ... and completes the request with what the command returned.
SyncRequestDone ==
    /\ job.pc = "sync" /\ call.pc = "returned"
    /\ completions' = Completed(job.token)
    /\ job' = IdleJob /\ call' = IdleCall
    /\ UNCHANGED <<chanVars, reader, modemVars, ghostVars>>
    /\ UNCHANGED <<queueVars, timed, conf, requests, served>>

\* continue_flag 1: a session is allocated, numbered and put on the queue
\* of its channel.
onRequest_async(rq) ==
    /\ Submit(rq) /\ rq.continue_flag = 1
    /\ LET t == Len(requests) + 1 IN
       /\ heap' = [heap EXCEPT ![t] =
                     [sessionID |-> globalSessionID % MAX_SESSION_ID,
                      channelID |-> rq.channelID, token |-> t,
                      shape |-> rq.shape, callback |-> rq.callback,
                      then |-> rq.then]]
       /\ descriptions' = enqueueSession(rq.channelID, t)
       /\ job' = [pc |-> "getChannel", fn |-> "onRequest", token |-> t,
                  channelID |-> rq.channelID]
    /\ globalSessionID' = globalSessionID + 1
    /\ UNCHANGED <<atVars, freed, timed, conf, completions, served>>

\* processNextRequest up to its first return: nothing to do on an empty
\* queue.
processNextRequest(c) ==
    /\ Free /\ BagIn(ProcessNext(c), timed)
    /\ timed' = Taken(ProcessNext(c))
    /\ job' = IF isSessionPending(c) = 0 THEN IdleJob
              ELSE [pc |-> "getChannel", fn |-> "processNextRequest",
                    token |-> 0, channelID |-> c]
    /\ UNCHANGED <<atVars, queueVars, conf, ghostDVars>>

\* getChannel, as onRequest and processNextRequest call it: an idle channel
\* is taken, on a busy one the caller returns and leaves the session queued.
getChannel ==
    /\ job.pc = "getChannel"
    /\ LET c == job.channelID IN
       \/ /\ descriptions[c].state = "CHANNEL_IDLE"
          /\ descriptions' = [descriptions EXCEPT ![c].state = "CHANNEL_BUSY"]
          /\ job' = [job EXCEPT !.pc = "getSession"]
       \/ /\ descriptions[c].state # "CHANNEL_IDLE"
          /\ job' = IdleJob
          /\ UNCHANGED descriptions
    /\ UNCHANGED <<atVars, heap, freed, globalSessionID, timed, conf, ghostDVars>>

\* at_send_command is called with the fields of session s.
SendSession(s, fn) ==
    /\ StartCall("async", heap[s].channelID, heap[s].shape, heap[s].sessionID)
    /\ served' = [served EXCEPT ![heap[s].channelID] =
                     Append(@, [id |-> Len(cmds) + 1, token |-> s])]
    /\ job' = [pc |-> "sent", fn |-> fn, token |-> job.token,
               channelID |-> heap[s].channelID]
    /\ UNCHANGED <<chanVars, reader, modemVars, done, unsolSeen, fault>>

\* The holder of the channel sends the command of the oldest session, which
\* need not be the one onRequest has just queued.
SendOldest ==
    /\ job.pc = "getSession"
    /\ LET s == getSession(job.channelID) IN
       IF s = NULL
       THEN /\ putChannel(job.channelID, descriptions)
            /\ job' = IdleJob
            /\ UNCHANGED <<atVars, served>>
       ELSE /\ SendSession(s, job.fn)
            /\ UNCHANGED <<descriptions, timed>>
    /\ UNCHANGED <<heap, freed, globalSessionID, conf, requests, completions>>

\* onRequest after at_send_command: on an error the channel is given back
\* and the token of THIS request is completed with a failure.
onRequest_sent ==
    /\ job.pc = "sent" /\ job.fn = "onRequest" /\ call.pc = "returned"
    /\ IF call.err < 0
       THEN /\ putChannel(job.channelID, descriptions)
            /\ completions' = Completed(job.token)
       ELSE UNCHANGED <<descriptions, timed, completions>>
    /\ job' = IdleJob /\ call' = IdleCall
    /\ UNCHANGED <<chanVars, reader, modemVars, ghostVars>>
    /\ UNCHANGED <<heap, freed, globalSessionID, conf, requests, served>>

\* continueProcessRequest: the next command of a chain, for the session
\* getSession returns; the result is not tested before it is used.
continueProcessRequest(c) ==
    /\ Free /\ BagIn(Continue(c), timed)
    /\ timed' = Taken(Continue(c))
    /\ LET s == getSession(c) IN
       IF s = NULL
       THEN /\ fault' = TRUE
            /\ job' = [job EXCEPT !.pc = "crashed"]
            /\ UNCHANGED <<chanVars, call, reader, modemVars, cmds, done,
                           unsolSeen, served>>
       ELSE SendSession(s, "continueProcessRequest")
    /\ UNCHANGED <<queueVars, conf, requests, completions>>

\* processNextRequest and continueProcessRequest drop what at_send_command
\* returns.
ResultIgnored ==
    /\ job.pc = "sent" /\ job.fn # "onRequest" /\ call.pc = "returned"
    /\ job' = IdleJob /\ call' = IdleCall
    /\ UNCHANGED <<chanVars, reader, modemVars, ghostVars>>
    /\ UNCHANGED <<queueVars, timed, conf, ghostDVars>>

DispatcherThread ==
    \/ \E rq \in Requests :
          onRequest_local(rq) \/ onRequest_sync(rq) \/ onRequest_async(rq)
    \/ \E c \in Channels : processNextRequest(c) \/ continueProcessRequest(c)
    \/ getChannel
    \/ SendOldest
    \/ onRequest_sent
    \/ ResultIgnored
    \/ SyncRequestDone

-----------------------------------------------------------------------------
(* The reader thread inside s_onConfirmHandler.                            *)

\* The callbacks that end a request (callback_DefaultResponse and the like)
\* complete its token and return 1.  A chaining callback (replyCpin,
\* callback_DeviceIdentity1, callback_SetupDefaultPDP) writes the next
\* command into the session, asks for continueProcessRequest and returns 0;
\* when the answer rules the next command out, it ends the request.
Chains(s, response) ==
    heap[s].callback = "callback_Chain" /\ response.success = 1

\* onConfirm up to the test of done.  The session is looked up by the
\* cookie and used as it comes.
onConfirm ==
    /\ reader.pc = "confirm" /\ conf.pc = "idle"
    /\ done' = done \cup {ConfirmArgs.response.owner}
    /\ LET s == findSessionByCookie(ConfirmArgs.channelID, ConfirmArgs.cookie) IN
       IF s = NULL
       THEN /\ fault' = TRUE
            /\ reader' = [reader EXCEPT !.pc = "crashed"]
            /\ UNCHANGED <<heap, timed, conf, completions>>
       ELSE \/ /\ Chains(s, ConfirmArgs.response)
               /\ heap' = [heap EXCEPT ![s].shape = heap[s].then,
                                       ![s].callback = "callback_Default"]
               /\ timed' = Scheduled(Continue(heap[s].channelID))
               /\ reader' = [reader EXCEPT !.pc = "release"]
               /\ UNCHANGED <<conf, completions, fault>>
            \/ /\ ~Chains(s, ConfirmArgs.response)
               /\ completions' = Completed(heap[s].token)
               /\ conf' = [pc |-> "removeSession", session |-> s]
               /\ UNCHANGED <<heap, timed, reader, fault>>
    /\ UNCHANGED <<chanVars, call, modemVars, cmds, unsolSeen>>
    /\ UNCHANGED <<descriptions, freed, globalSessionID, job, requests, served>>

\* postCallback, first half.
postCallback_removeSession ==
    /\ conf.pc = "removeSession"
    /\ descriptions' = removeSession(heap[conf.session].channelID, conf.session)
    /\ conf' = [conf EXCEPT !.pc = "putChannel"]
    /\ UNCHANGED <<atVars, heap, freed, globalSessionID, timed, job, ghostDVars>>

\* postCallback, second half, and the return into handleFinalResponse.
postCallback_putChannel ==
    /\ conf.pc = "putChannel"
    /\ putChannel(heap[conf.session].channelID, descriptions)
    /\ freed' = freed \cup {conf.session}
    /\ conf' = IdleConf
    /\ reader' = [reader EXCEPT !.pc = "release"]
    /\ UNCHANGED <<chanVars, call, modemVars, ghostVars>>
    /\ UNCHANGED <<heap, globalSessionID, job, ghostDVars>>

ConfirmHandler ==
    onConfirm \/ postCallback_removeSession \/ postCallback_putChannel

-----------------------------------------------------------------------------

\* Both threads asleep and nothing owed by the modem or by libril.
DQuiescent == Quiescent /\ job.pc = "idle" /\ timed = EmptyBag

DSleep == DQuiescent /\ UNCHANGED vars

DCrashed == fault /\ UNCHANGED vars

\* The steps of the AT channel layer leave the dispatcher's state alone.
AtCommandStep == CommandThread /\ UNCHANGED dVars
AtReaderStep == ReaderThread /\ UNCHANGED dVars
ModemStep == Modem /\ UNCHANGED dVars
ModemAnswers(c) ==
    (ModemFinal(c, "ERROR") \/ ModemFinal(c, "OK")) /\ UNCHANGED dVars

DNext ==
    \/ DispatcherThread
    \/ AtCommandStep
    \/ AtReaderStep
    \/ ConfirmHandler
    \/ ModemStep
    \/ DSleep
    \/ DCrashed

\* Both threads are scheduled fairly, libril runs every callback it was
\* given, and the modem answers every command.  No fairness is asked of
\* the upper layer's requests.
DFairness ==
    /\ WF_vars(AtCommandStep)
    /\ WF_vars(getChannel \/ SendOldest \/ onRequest_sent \/ ResultIgnored
                 \/ SyncRequestDone)
    /\ WF_vars(\E c \in Channels : processNextRequest(c) \/ continueProcessRequest(c))
    /\ WF_vars(AtReaderStep \/ ConfirmHandler)
    /\ \A c \in Channels : WF_vars(ModemAnswers(c))

DSpec == DInit /\ [][DNext]_vars /\ DFairness

-----------------------------------------------------------------------------
(* Properties *)

\* The queue of a channel holds live sessions of that channel, each once.
DTypeOK ==
    /\ AtTypeOK
    /\ \A c \in Channels :
          /\ descriptions[c].state \in ChannelStates
          /\ Queue(c) \in Seq(Tokens \ freed)
          /\ \A i, j \in DOMAIN Queue(c) : Queue(c)[i] = Queue(c)[j] => i = j
          /\ \A i \in DOMAIN Queue(c) : heap[Queue(c)[i]].channelID = c
          /\ served[c] \in Seq([id : Ids, token : Tokens])
    /\ heap \in [Tokens -> Session \cup {NULL}]
    /\ freed \subseteq Tokens
    /\ globalSessionID \in 0..MaxRequests
    /\ IsABag(timed)
    /\ BagToSet(timed) \subseteq
          {ProcessNext(c) : c \in Channels} \cup {Continue(c) : c \in Channels}
    /\ job \in [pc : {"idle", "getChannel", "getSession", "sent", "sync",
                      "crashed"},
                fn : {"onRequest", "processNextRequest",
                      "continueProcessRequest", NULL},
                token : {0} \cup Tokens, channelID : Channels \cup {NULL}]
    /\ conf \in [pc : {"idle", "removeSession", "putChannel"},
                 session : Tokens \cup {NULL}]
    /\ requests \in Seq(Requests) /\ Len(requests) <= MaxRequests
    /\ completions \in [Tokens -> 0..2]

\* The sessions of a channel are served in the order their requests
\* arrived, and none is served while an older one waits: getSession walks
\* to the end of a list that enqueueSession grows at the head, whichever of
\* onRequest, processNextRequest and continueProcessRequest sends.
ServedTokens(c) == {served[c][i].token : i \in DOMAIN served[c]}

ServedInArrivalOrder ==
    \A c \in Channels :
        /\ \A i, j \in DOMAIN served[c] :
              i < j => served[c][i].token <= served[c][j].token
        /\ \A t \in ToSet(Queue(c)) \ ServedTokens(c) :
              \A u \in ServedTokens(c) : u < t

\* RIL_onRequestComplete is called at most once for a token (ril.h: a
\* request is completed exactly once), by onRequest or by the callback of
\* the token's session.
TokenCompletedOnce ==
    \A t \in Tokens : completions[t] <= 1

\* The command of a channel whose response the reader holds.
AnswerPending(c) ==
    /\ channels[c].sp_response # NULL
    /\ cmds[channels[c].sp_response.owner].fn = "async"

\* A queued session is never left without someone who will serve it: while
\* a session is queued, a command of the channel is answered or awaited,
\* or the command thread is between getChannel and the end of its call, or
\* libril holds a callback for the channel.  putChannel on the reader thread
\* and enqueueSession/getChannel on the command thread may interleave in
\* any order.
NoStrandedSession ==
    \A c \in Channels :
        Queue(c) # <<>> =>
            \/ AnswerPending(c)
            \/ job.pc \in {"getChannel", "getSession", "sent"} /\ job.channelID = c
            \/ BagIn(ProcessNext(c), timed) \/ BagIn(Continue(c), timed)
            \/ fault

\* An idle channel with queued sessions always has processNextRequest
\* scheduled or onRequest about to take it, also when writes fail: no
\* order of putChannel (either thread) and enqueueSession/getChannel loses
\* the wake-up.
IdleChannelIsScheduled ==
    \A c \in Channels :
        Queue(c) # <<>> /\ descriptions[c].state = "CHANNEL_IDLE" =>
            \/ BagIn(ProcessNext(c), timed)
            \/ job.pc = "getChannel" /\ job.channelID = c

\* The session onConfirm finds by the cookie is the one whose command the
\* response answers, and it is still allocated.
ConfirmFindsItsSession ==
    reader.pc = "confirm" /\ conf.pc = "idle" =>
        LET c == ConfirmArgs.channelID
            s == findSessionByCookie(c, ConfirmArgs.cookie)
        IN /\ s # NULL /\ s \notin freed
           /\ \E i \in DOMAIN served[c] :
                 served[c][i] = [id |-> ConfirmArgs.response.owner, token |-> s]

\* Every request the upper layer submitted is completed, whatever the
\* other requests are and however the two threads interleave (unless the
\* process crashed).
EveryRequestCompletes ==
    \A t \in Tokens : (Len(requests) >= t) ~> (completions[t] >= 1 \/ fault)

-----------------------------------------------------------------------------
(* Refinement: the dispatcher implements ChannelService.  A session waits *)
(* until its first command is handed to at_send_command; a channel serves *)
(* the oldest session of its queue from then until the token is completed.*)

Waiting(c) ==
    SelectSeq(Reverse(Queue(c)), LAMBDA s : s \notin ServedTokens(c))

Serving(c) ==
    IF /\ Queue(c) # <<>>
       /\ Last(Queue(c)) \in ServedTokens(c)
       /\ completions[Last(Queue(c))] = 0
    THEN Last(Queue(c)) ELSE NULL

Service ==
    INSTANCE ChannelService WITH
        NoToken <- NULL,
        submitted <- Len(requests),
        waiting <- [c \in Channels |-> Waiting(c)],
        serving <- [c \in Channels |-> Serving(c)],
        direct <- {t \in {job.token} : job.pc = "sync"},
        completed <- {t \in Tokens : completions[t] > 0}

\* Every step of onRequest, of the timed callbacks and of onConfirm is a
\* step of the service or leaves what the upper layer can observe
\* unchanged: sessions are served one at a time and oldest first, a token
\* is completed only while its session is being served, and under the
\* dispatcher's fairness the service goes on until every request is
\* answered.
ImplementsChannelService == Service!LiveSpec

=============================================================================
