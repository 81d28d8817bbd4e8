----------------------------- MODULE AtChannel -----------------------------
(***************************************************************************)
(* The AT command channel layer of the Marvell RIL                         *)
(* (src/vendor/marvell/generic/marvell-ril/atchannel.c).                   *)
(*                                                                         *)
(* Two threads share the array channels[]:                                 *)
(*   - the command thread, which calls at_send_command (asynchronous, the  *)
(*     answer comes back through s_onConfirmHandler) and                   *)
(*     at_send_command_sync (blocks on cond[c] until the final response);  *)
(*   - the reader thread (readerLoop), which takes lines from every open   *)
(*     tty, classifies them in processLine and completes the command.      *)
(* The issuer works under mutex[c]; the reader takes mutex[c] only to      *)
(* signal and to release the response, so every other access of the reader *)
(* is a step of its own that interleaves with the issuer.                  *)
(*                                                                         *)
(* The modem is the environment: it answers the commands written to a tty  *)
(* in order and may send unsolicited lines at any time.                    *)
(*                                                                         *)
(* Data abstraction.  A line is a record: `kind' and `pfx' are what the    *)
(* classifier's string tests can tell apart, `of' and `n' are ghost tags   *)
(* (the command the modem wrote the line for, its position in the answer)  *)
(* that only the properties read.  A response carries the ghost tag        *)
(* `owner', the command at_response_new() allocated it for.                *)
(***************************************************************************)
EXTENDS Integers, Sequences, FiniteSets, SequencesExt

CONSTANTS
    Channels,            \* channel ids, 0 .. COMMAND_CHANNEL_NUMBER-1
    CHANNEL_DATA,        \* the channel on which CONNECT is a final response
    CHANNEL_UNSOLICITED, \* the channel whose unsolicited lines are all routed
    ResponsePrefixes,    \* response prefixes ("+CSQ:", ...), non-empty strings
    CallPrefixes,        \* the prefixes listed in s_callUnsoliciteds
    SyncShapes,          \* arguments the command thread gives at_send_command_sync
    AsyncShapes,         \* arguments the command thread gives at_send_command
    UnsolLines,          \* lines the modem may send unsolicited
    MaxCalls,            \* bound: calls of at_send_command[_sync] in a behaviour
    MaxIntermediate,     \* bound: information lines in one MULTILINE answer
    MaxUnsol,            \* bound: unsolicited lines in a behaviour
    WriteMayFail,        \* TRUE: write(2) on a tty may fail
    SpuriousWakeups,     \* TRUE: pthread_cond_wait may return unsignalled
    NULL

ASSUME /\ CHANNEL_DATA \in Channels /\ CHANNEL_UNSOLICITED \in Channels
       /\ CallPrefixes \subseteq ResponsePrefixes /\ "" \notin ResponsePrefixes
       /\ MaxCalls \in Nat /\ MaxIntermediate \in Nat /\ MaxUnsol \in Nat
       /\ WriteMayFail \in BOOLEAN /\ SpuriousWakeups \in BOOLEAN

VARIABLES
    channels,       \* struct channel_struct channels[]
    mutex,          \* mutex[c]: the thread holding it, or NULL
    cond,           \* cond[c]: the threads blocked in pthread_cond_wait
    s_readerClosed, \* 0, or 1 once the reader is gone
    call,           \* the command thread's frame in at_send_command[_sync]
    reader,         \* the reader thread's position and the line in its hand
    tty,            \* per channel: the modem's side of the serial line
    nUnsol,         \* unsolicited lines sent so far (bounded by MaxUnsol)
    cmds,           \* ghost: every command issued so far, cmds[id]
    done,           \* ghost: ids whose outcome reached the issuer
    unsolSeen,      \* ghost: the calls of s_unsolHandler so far
    fault           \* TRUE once the process dereferenced a freed response

chanVars  == <<channels, mutex, cond, s_readerClosed>>
modemVars == <<tty, nUnsol>>
ghostVars == <<cmds, done, unsolSeen, fault>>
atVars    == <<channels, mutex, cond, s_readerClosed, call, reader, tty,
               nUnsol, cmds, done, unsolSeen, fault>>

-----------------------------------------------------------------------------
(* Types of atchannel.h *)

ATCommandType == {"NO_RESULT", "NUMERIC", "SINGLELINE", "MULTILINE"}

AT_ERROR_GENERIC        == -1
AT_ERROR_CHANNEL_CLOSED == -3

\* What the string tests of the classifier distinguish in a line.
LineKinds == {"OK", "CONNECT", "ERROR", "NOCARRIER", "PROMPT", "DIGIT",
              "PFX", "RING", "SMS", "PDU", "OTHER"}

Ids == 1..MaxCalls

Lines == [kind : LineKinds, pfx : ResponsePrefixes \cup {""}, of : {0} \cup Ids,
          n : 0..MaxIntermediate]

Line(k, p, id, i) == [kind |-> k, pfx |-> p, of |-> id, n |-> i]

\* struct ATResponse; p_intermediates is the linked list, head first.
ATResponse == [success : {0, 1}, finalResponse : Lines \cup {NULL},
               p_intermediates : Seq(Lines), owner : Ids]

at_response_new(id) ==
    [success |-> 0, finalResponse |-> NULL, p_intermediates |-> <<>>,
     owner |-> id]

\* The arguments of a call: responsePrefix and smspdu may be NULL pointers.
Shapes == [type : ATCommandType, responsePrefix : ResponsePrefixes \cup {"", NULL},
           smspdu : {"", "pdu", NULL}, needResponse : {0, 1}]

Commands == [fn : {"sync", "async"}, channelID : Channels, shape : Shapes,
             cookie : Int]

-----------------------------------------------------------------------------
(* The response classifier: the string tables and processLine's rules *)

strStartsWith(line, prefix) ==
    prefix = "" \/ (line.kind = "PFX" /\ line.pfx = prefix)

isFinalResponseError(line)   == line.kind = "ERROR"
isFinalResponseSuccess(line) == line.kind \in {"OK", "CONNECT"}
isSMSUnsolicited(line)       == line.kind = "SMS"
isCallUnsolicited(line) ==
    \/ line.kind \in {"RING", "NOCARRIER", "CONNECT"}
    \/ line.kind = "PFX" /\ line.pfx \in CallPrefixes

\* processLine's first test: the line is unsolicited whatever else holds.
NoCommandPending(ch, line) ==
    ch.sp_response = NULL \/ line.kind = "NOCARRIER"

\* The rest of processLine's else-if chain, in the order of the code, for a
\* line that passed the first test.  The result names the branch taken.
ClassifyPending(ch, c, line) ==
    IF isFinalResponseSuccess(line)
    THEN IF c # CHANNEL_DATA /\ line.kind = "CONNECT" THEN "unsolicited"
                                                       ELSE "success"
    ELSE IF isFinalResponseError(line) THEN "error"
    ELSE IF ch.s_smsPDU # "" /\ line.kind = "PROMPT" THEN "prompt"
    ELSE CASE ch.s_type = "NO_RESULT" -> "unsolicited"
           [] ch.s_type = "NUMERIC" ->
                IF ch.sp_response.p_intermediates = <<>> /\ line.kind = "DIGIT"
                THEN "intermediate" ELSE "unsolicited"
           [] ch.s_type = "SINGLELINE" ->
                IF /\ ch.sp_response.p_intermediates = <<>>
                   /\ strStartsWith(line, ch.s_responsePrefix)
                THEN "intermediate" ELSE "unsolicited"
           [] ch.s_type = "MULTILINE" ->
                IF strStartsWith(line, ch.s_responsePrefix)
                THEN "intermediate" ELSE "unsolicited"

\* The branches of that chain that read or write through sp_response.
Dereferences(ch, c, line) ==
    IF isFinalResponseSuccess(line)
    THEN ~(c # CHANNEL_DATA /\ line.kind = "CONNECT")
    ELSE \/ isFinalResponseError(line)
         \/ /\ ~(ch.s_smsPDU # "" /\ line.kind = "PROMPT")
            /\ \/ ch.s_type \in {"NUMERIC", "SINGLELINE"}
               \/ ch.s_type = "MULTILINE"
                  /\ strStartsWith(line, ch.s_responsePrefix)

\* processLine as one function of the channel and the line.
Classify(ch, c, line) ==
    IF NoCommandPending(ch, line) THEN "unsolicited"
                                  ELSE ClassifyPending(ch, c, line)

-----------------------------------------------------------------------------
(* The state after mainLoop opened every channel (at_channel_open) and     *)
(* started the reader (at_channel_init); statics are zero-initialised.     *)

ChannelTypeOK(ch) ==
    /\ ch.ttyFd \in {-1, 1}
    /\ ch.sessionCookie \in Int
    /\ ch.s_type \in ATCommandType
    /\ ch.isBlocked \in {0, 1}
    /\ ch.needResponse \in {0, 1}
    /\ ch.s_responsePrefix \in ResponsePrefixes \cup {""}
    /\ ch.s_smsPDU \in {"", "pdu"}
    /\ ch.sp_response \in ATResponse \cup {NULL}

OpenedChannel ==
    [ttyFd |-> 1, sessionCookie |-> 0, s_type |-> "NO_RESULT", isBlocked |-> 0,
     needResponse |-> 0, s_responsePrefix |-> "", s_smsPDU |-> "",
     sp_response |-> NULL]

\* The modem's side of a tty: the lines it wrote that the reader has not
\* taken yet, the commands it has not answered, and how far it is with the
\* oldest of them.
IdleTty == [toHost |-> <<>>, pending |-> <<>>, emitted |-> 0,
            prompted |-> FALSE, body |-> FALSE]

IdleCall   == [pc |-> "idle", id |-> 0, err |-> 0, out |-> NULL]
IdleReader == [pc |-> "select", channelID |-> NULL, line |-> NULL]

AtInit ==
    /\ channels = [c \in Channels |-> OpenedChannel]
    /\ mutex = [c \in Channels |-> NULL]
    /\ cond = [c \in Channels |-> {}]
    /\ s_readerClosed = 0
    /\ call = IdleCall
    /\ reader = IdleReader
    /\ tty = [c \in Channels |-> IdleTty]
    /\ nUnsol = 0
    /\ cmds = <<>>
    /\ done = {}
    /\ unsolSeen = {}
    /\ fault = FALSE

-----------------------------------------------------------------------------
(* pthread primitives *)

\* pthread_cond_signal under mutex[c]: one waiter, if there is one, leaves.
Signalled(c) ==
    IF cond[c] = {} THEN cond
    ELSE [cond EXCEPT ![c] = @ \ {CHOOSE t \in @ : TRUE}]

\* pthread_cond_wait on cond[c] may return to the thread: it was signalled,
\* or it wakes by itself, as POSIX lets it and as the single futex wait of
\* the C library does when a signal interrupts it.
Woken(t, c) == t \notin cond[c] \/ SpuriousWakeups

\* The thread may take mutex[c]: it is free and the thread is not (any more)
\* blocked in pthread_cond_wait on cond[c].
MayLock(t, c) == mutex[c] = NULL /\ Woken(t, c)

\* cond[c] once the thread has left its pthread_cond_wait.
Left(t, c) == [cond EXCEPT ![c] = @ \ {t}]

-----------------------------------------------------------------------------
(* writeline and writeCtrlZ: what reaches the modem, and the error code *)

\* Both refuse a closed channel and a dead reader before writing.
ChannelClosed(c) == channels[c].ttyFd < 0 \/ s_readerClosed > 0

\* The error codes writeline(c, ..) can return in this state.
WriteResults(c) ==
    IF ChannelClosed(c) THEN {AT_ERROR_CHANNEL_CLOSED}
    ELSE {0} \cup (IF WriteMayFail THEN {AT_ERROR_GENERIC} ELSE {})

\* The command is on the wire: the modem owes it a final response.
Written(c, id) == [tty EXCEPT ![c].pending = Append(@, id)]

-----------------------------------------------------------------------------
(* The command thread: at_send_command_sync and at_send_command *)

Cmd == cmds[call.id]

\* A call begins: the frame is set up and the command gets its ghost id.
StartCall(fn, c, sh, cookie) ==
    /\ call.pc = "idle"
    /\ Len(cmds) < MaxCalls
    /\ cmds' = Append(cmds, [fn |-> fn, channelID |-> c, shape |-> sh,
                             cookie |-> cookie])
    /\ call' = [pc |-> "enter", id |-> Len(cmds) + 1, err |-> 0, out |-> NULL]

\* Mutant: the loop on sp_response is gone.
NeverOccupied(c) == FALSE

\* The loop both functions start with: while a response is outstanding the
\* issuer sleeps on cond[c], giving the mutex up.
ChannelOccupied(c) == channels[c].sp_response # NULL

WaitForChannel(fn) ==
    /\ call.pc = "enter" /\ Cmd.fn = fn
    /\ MayLock("cmd", Cmd.channelID)
    /\ ChannelOccupied(Cmd.channelID)
    /\ cond' = [cond EXCEPT ![Cmd.channelID] = @ \cup {"cmd"}]
    /\ UNCHANGED <<channels, mutex, s_readerClosed, call, reader, modemVars,
                   ghostVars>>

\* Mutant: the strings are copied without the test for a NULL pointer.
StoreStrings_NoNullTest(ch, sh) ==
    [ch EXCEPT !.s_responsePrefix = sh.responsePrefix, !.s_smsPDU = sh.smspdu]

\* A NULL responsePrefix or smspdu leaves the previous command's string in
\* the channel.
StoreStrings(ch, sh) ==
    [ch EXCEPT
       !.s_responsePrefix = IF sh.responsePrefix = NULL THEN @
                            ELSE sh.responsePrefix,
       !.s_smsPDU = IF sh.smspdu = NULL THEN @ ELSE sh.smspdu]

\* Mutant: at_send_command does not store its cookie.
StoreCookie_Never(ch, cmd) == ch.sessionCookie

\* Only at_send_command stores a cookie; at_send_command_sync leaves the
\* one of the last asynchronous command.
StoreCookie(ch, cmd) ==
    IF cmd.fn = "async" THEN cmd.cookie ELSE ch.sessionCookie

\* The channel's fields once the issuer stored its arguments and a fresh
\* response.
Prepared(ch, cmd, id) ==
    [StoreStrings(ch, cmd.shape) EXCEPT
       !.needResponse = cmd.shape.needResponse,
       !.s_type = cmd.shape.type,
       !.sessionCookie = StoreCookie(ch, cmd),
       !.isBlocked = IF cmd.fn = "sync" THEN 1 ELSE 0,
       !.sp_response = at_response_new(id)]

\* The issuer leaves the loop with the mutex held and claims the channel.
ClaimChannel(fn) ==
    /\ call.pc = "enter" /\ Cmd.fn = fn
    /\ MayLock("cmd", Cmd.channelID)
    /\ ~ChannelOccupied(Cmd.channelID)
    /\ mutex' = [mutex EXCEPT ![Cmd.channelID] = "cmd"]
    /\ channels' = [channels EXCEPT
                      ![Cmd.channelID] = Prepared(@, Cmd, call.id)]
    /\ cond' = Left("cmd", Cmd.channelID)
    /\ call' = [call EXCEPT !.pc = "write"]
    /\ UNCHANGED <<s_readerClosed, reader, modemVars, ghostVars>>

\* Both error exits: the response is freed, the pointer cleared, the mutex
\* released and the error returned.  Nobody is signalled.
FailCall(c, err) ==
    /\ channels' = [channels EXCEPT ![c].sp_response = NULL]
    /\ mutex' = [mutex EXCEPT ![c] = NULL]
    /\ call' = [call EXCEPT !.pc = "returned", !.err = err]
    /\ done' = done \cup {call.id}

\* at_send_command_sync, from writeline to the sleep on cond[c].
SyncWriteline ==
    /\ call.pc = "write" /\ Cmd.fn = "sync"
    /\ LET c == Cmd.channelID IN
       \E err \in WriteResults(c) :
          \/ /\ err = 0
             /\ tty' = Written(c, call.id)
             /\ mutex' = [mutex EXCEPT ![c] = NULL]
             /\ cond' = [cond EXCEPT ![c] = @ \cup {"cmd"}]
             /\ call' = [call EXCEPT !.pc = "wait"]
             /\ UNCHANGED <<channels, done>>
          \/ /\ err < 0
             /\ FailCall(c, err)
             /\ UNCHANGED <<cond, tty>>
    /\ UNCHANGED <<s_readerClosed, reader, nUnsol, cmds, unsolSeen, fault>>

\* at_send_command_sync after the single pthread_cond_wait, which no loop
\* on a predicate surrounds: whatever sp_response holds when the wait
\* returns is handed to the caller (or freed), and cleared.
SyncReturn ==
    /\ call.pc = "wait"
    /\ LET c == Cmd.channelID IN
       /\ MayLock("cmd", c)
       /\ call' = [call EXCEPT
                     !.pc = "returned",
                     !.err = IF s_readerClosed > 0
                             THEN AT_ERROR_CHANNEL_CLOSED ELSE 0,
                     !.out = IF s_readerClosed = 0 /\ Cmd.shape.needResponse = 1
                             THEN channels[c].sp_response ELSE NULL]
       /\ cond' = Left("cmd", c)
       /\ channels' = [channels EXCEPT ![c].sp_response = NULL]
    /\ done' = done \cup {call.id}
    /\ UNCHANGED <<mutex, s_readerClosed, reader, modemVars, cmds,
                   unsolSeen, fault>>

at_send_command_sync ==
    \/ WaitForChannel("sync")
    \/ ClaimChannel("sync")
    \/ SyncWriteline
    \/ SyncReturn

\* at_send_command, from writeline to the return: on success the response
\* stays with the channel for the reader to complete.
AsyncWriteline ==
    /\ call.pc = "write" /\ Cmd.fn = "async"
    /\ LET c == Cmd.channelID IN
       \E err \in WriteResults(c) :
          \/ /\ err = 0
             /\ tty' = Written(c, call.id)
             /\ mutex' = [mutex EXCEPT ![c] = NULL]
             /\ call' = [call EXCEPT !.pc = "returned"]
             /\ UNCHANGED <<channels, done>>
          \/ /\ err < 0
             /\ FailCall(c, err)
             /\ UNCHANGED tty
    /\ UNCHANGED <<cond, s_readerClosed, reader, nUnsol, cmds, unsolSeen,
                   fault>>

at_send_command ==
    \/ WaitForChannel("async")
    \/ ClaimChannel("async")
    \/ AsyncWriteline

-----------------------------------------------------------------------------
(* The reader thread: readerLoop, channelReader, processLine *)

\* s_unsolHandler(line, sms_pdu) is called.
Unsol(line, pdu) == [s |-> line, sms_pdu |-> pdu]

\* handleUnsolicited: off the unsolicited channel only call-related lines
\* are passed on, every other line is dropped.
handleUnsolicited(c, line) ==
    unsolSeen' = IF c # CHANNEL_UNSOLICITED /\ ~isCallUnsolicited(line)
                 THEN unsolSeen
                 ELSE unsolSeen \cup {Unsol(line, NULL)}

\* One line of an open channel is taken by select/readChannel/getline.  The
\* first line of an SMS indication makes the reader wait for the second;
\* a line that passes processLine's first test is handled at once; for any
\* other line the reader goes on into processLine's else-if chain.
channelReader(c) ==
    /\ reader.pc = "select"
    /\ channels[c].ttyFd # -1
    /\ tty[c].toHost # <<>>
    /\ LET line == Head(tty[c].toHost) IN
       /\ tty' = [tty EXCEPT ![c].toHost = Tail(@)]
       /\ \/ /\ isSMSUnsolicited(line)
             /\ reader' = [pc |-> "sms", channelID |-> c, line |-> line]
             /\ UNCHANGED unsolSeen
          \/ /\ ~isSMSUnsolicited(line)
             /\ NoCommandPending(channels[c], line)
             /\ handleUnsolicited(c, line)
             /\ UNCHANGED reader
          \/ /\ ~isSMSUnsolicited(line)
             /\ ~NoCommandPending(channels[c], line)
             /\ reader' = [pc |-> "process", channelID |-> c, line |-> line]
             /\ UNCHANGED unsolSeen
    /\ UNCHANGED <<chanVars, call, nUnsol, cmds, done, fault>>

\* The reader stays in channelReader's inner loop until the same channel
\* delivers the next line, which it takes as the PDU whatever it is.
ReadSmsPdu ==
    /\ reader.pc = "sms"
    /\ LET c == reader.channelID IN
       /\ tty[c].toHost # <<>>
       /\ tty' = [tty EXCEPT ![c].toHost = Tail(@)]
       /\ unsolSeen' = IF c = CHANNEL_UNSOLICITED
                       THEN unsolSeen \cup {Unsol(reader.line, Head(tty[c].toHost))}
                       ELSE unsolSeen
    /\ reader' = IdleReader
    /\ UNCHANGED <<chanVars, call, nUnsol, cmds, done, fault>>

\* reverseIntermediates flips the list in place.
reverseIntermediates(resp) ==
    [resp EXCEPT !.p_intermediates = Reverse(@)]

\* Mutant: the list is handed over as addIntermediate built it.
Finalised_NoFlip(resp, line, ok, needResponse) ==
    [resp EXCEPT !.success = ok, !.finalResponse = line]

\* handleFinalResponse up to its branch on isBlocked: the final line is
\* stored and, when the issuer wants the response, the list is flipped back
\* into the order of arrival.
Finalised(resp, line, ok, needResponse) ==
    LET closed == [resp EXCEPT !.success = ok, !.finalResponse = line]
    IN  IF needResponse = 0 THEN closed ELSE reverseIntermediates(closed)

\* addIntermediate puts the line at the head of the list.
addIntermediate(resp, line) ==
    [resp EXCEPT !.p_intermediates = <<line>> \o @]

\* writeCtrlZ: the PDU and ^Z reach the modem unless the write is refused or
\* fails; processLine ignores the result and clears s_smsPDU either way.
writeCtrlZ(c) ==
    \E err \in WriteResults(c) :
        tty' = [tty EXCEPT ![c].body = @ \/ err = 0]

\* processLine's else-if chain, run without mutex[c] on what the channel
\* holds now.  A branch that goes through sp_response after the issuer
\* cleared it is a NULL dereference.
processLine ==
    /\ reader.pc = "process"
    /\ LET c    == reader.channelID
           line == reader.line
           ch   == channels[c]
           kind == ClassifyPending(ch, c, line)
       IN \/ /\ ch.sp_response = NULL /\ Dereferences(ch, c, line)
             /\ fault' = TRUE
             /\ reader' = [reader EXCEPT !.pc = "crashed"]
             /\ call' = [call EXCEPT !.pc = "crashed"]
             /\ UNCHANGED <<channels, tty, unsolSeen>>
          \/ /\ ~(ch.sp_response = NULL /\ Dereferences(ch, c, line))
             /\ \/ /\ kind \in {"success", "error"}
                   /\ channels' = [channels EXCEPT ![c].sp_response =
                         Finalised(@, line, IF kind = "success" THEN 1 ELSE 0,
                                   ch.needResponse)]
                   /\ reader' = [reader EXCEPT !.pc =
                         IF ch.isBlocked = 1 THEN "signal" ELSE "confirm"]
                   /\ UNCHANGED <<tty, unsolSeen>>
                \/ /\ kind = "prompt"
                   /\ writeCtrlZ(c)
                   /\ channels' = [channels EXCEPT ![c].s_smsPDU = ""]
                   /\ reader' = IdleReader
                   /\ UNCHANGED unsolSeen
                \/ /\ kind = "intermediate"
                   /\ channels' = [channels EXCEPT ![c].sp_response =
                                      addIntermediate(@, line)]
                   /\ reader' = IdleReader
                   /\ UNCHANGED <<tty, unsolSeen>>
                \/ /\ kind = "unsolicited"
                   /\ handleUnsolicited(c, line)
                   /\ reader' = IdleReader
                   /\ UNCHANGED <<channels, tty>>
             /\ UNCHANGED <<call, fault>>
    /\ UNCHANGED <<mutex, cond, s_readerClosed, nUnsol, cmds, done>>

\* Mutant: the reader goes back to select() without the signal.
SignalIssuer_NoSignal ==
    /\ reader.pc = "signal"
    /\ MayLock("reader", reader.channelID)
    /\ reader' = IdleReader
    /\ UNCHANGED <<chanVars, call, modemVars, ghostVars>>

\* handleFinalResponse for a blocked issuer: signal under the mutex.
SignalIssuer ==
    /\ reader.pc = "signal"
    /\ MayLock("reader", reader.channelID)
    /\ cond' = Signalled(reader.channelID)
    /\ reader' = IdleReader
    /\ UNCHANGED <<channels, mutex, s_readerClosed, call, modemVars, ghostVars>>

\* handleFinalResponse for an asynchronous command, after the confirm
\* handler returned: free the response, clear the pointer, wake a waiter.
ReleaseResponse ==
    /\ reader.pc = "release"
    /\ MayLock("reader", reader.channelID)
    /\ channels' = [channels EXCEPT ![reader.channelID].sp_response = NULL]
    /\ cond' = Signalled(reader.channelID)
    /\ reader' = IdleReader
    /\ UNCHANGED <<mutex, s_readerClosed, call, modemVars, ghostVars>>

\* What handleFinalResponse passes to s_onConfirmHandler.
ConfirmArgs ==
    [channelID |-> reader.channelID,
     response  |-> channels[reader.channelID].sp_response,
     cookie    |-> channels[reader.channelID].sessionCookie]

-----------------------------------------------------------------------------
(* The modem (environment).  It answers the oldest command written to a    *)
(* tty: information lines of the shape the command asks for, the "> "      *)
(* prompt of a command that carries a PDU, then one final line.  It may    *)
(* send an unsolicited line on any channel at any time.                    *)

\* The information lines a command of this type is answered with, at most.
Quota(type) ==
    CASE type = "NO_RESULT" -> 0
      [] type \in {"NUMERIC", "SINGLELINE"} -> 1
      [] type = "MULTILINE" -> MaxIntermediate

\* The n-th information line of the modem's answer to command id.
Information(id, i) ==
    LET sh == cmds[id].shape IN
    CASE sh.type = "NUMERIC" -> Line("DIGIT", "", id, i)
      [] sh.responsePrefix \in ResponsePrefixes ->
            Line("PFX", sh.responsePrefix, id, i)
      [] OTHER -> Line("OTHER", "", id, i)

HasPdu(id) == cmds[id].shape.smspdu = "pdu"

ModemPrompt(c) ==
    /\ tty[c].pending # <<>>
    /\ HasPdu(Head(tty[c].pending))
    /\ ~tty[c].prompted
    /\ tty' = [tty EXCEPT ![c].prompted = TRUE,
                          ![c].toHost = Append(@, Line("PROMPT", "",
                                                  Head(tty[c].pending), 0))]
    /\ UNCHANGED <<chanVars, call, reader, nUnsol, ghostVars>>

ModemInformation(c) ==
    /\ tty[c].pending # <<>>
    /\ LET id == Head(tty[c].pending) IN
       /\ HasPdu(id) => tty[c].body
       /\ tty[c].emitted < Quota(cmds[id].shape.type)
       /\ tty' = [tty EXCEPT ![c].emitted = @ + 1,
                             ![c].toHost = Append(@,
                                 Information(id, tty[c].emitted + 1))]
    /\ UNCHANGED <<chanVars, call, reader, nUnsol, ghostVars>>

\* The final line: an error at any time, success once a PDU command got its
\* body; CONNECT is what the data channel answers a dial command with.
ModemFinal(c, kind) ==
    /\ tty[c].pending # <<>>
    /\ LET id == Head(tty[c].pending) IN
       /\ kind \in {"OK", "ERROR"} \cup
                   (IF c = CHANNEL_DATA THEN {"CONNECT"} ELSE {})
       /\ kind # "ERROR" => (HasPdu(id) => tty[c].body)
       /\ tty' = [tty EXCEPT ![c] =
                     [IdleTty EXCEPT !.pending = Tail(tty[c].pending),
                                     !.toHost = Append(tty[c].toHost,
                                                       Line(kind, "", id, 0))]]
    /\ UNCHANGED <<chanVars, call, reader, nUnsol, ghostVars>>

\* An unsolicited line; the first line of an SMS indication is followed by
\* its PDU line.
ModemUnsolicited(c, line) ==
    /\ nUnsol < MaxUnsol
    /\ line \in UnsolLines
    /\ nUnsol' = nUnsol + 1
    /\ tty' = [tty EXCEPT ![c].toHost =
                  @ \o (IF line.kind = "SMS"
                        THEN <<line, Line("PDU", "", 0, 0)>> ELSE <<line>>)]
    /\ UNCHANGED <<chanVars, call, reader, ghostVars>>

Modem ==
    \E c \in Channels :
        \/ ModemPrompt(c)
        \/ ModemInformation(c)
        \/ \E kind \in {"OK", "ERROR", "CONNECT"} : ModemFinal(c, kind)
        \/ \E line \in UnsolLines : ModemUnsolicited(c, line)

-----------------------------------------------------------------------------
(* The layer on its own: a caller that issues any command of the two shape *)
(* sets and a confirm handler that only takes note of the outcome.         *)

CallSync(c, sh) ==
    /\ sh \in SyncShapes
    /\ StartCall("sync", c, sh, 0)
    /\ UNCHANGED <<chanVars, reader, modemVars, done, unsolSeen, fault>>

CallAsync(c, sh) ==
    /\ sh \in AsyncShapes
    /\ StartCall("async", c, sh, Len(cmds) + 1)
    /\ UNCHANGED <<chanVars, reader, modemVars, done, unsolSeen, fault>>

CallReturns ==
    /\ call.pc = "returned"
    /\ call' = IdleCall
    /\ UNCHANGED <<chanVars, reader, modemVars, ghostVars>>

ConfirmReturns ==
    /\ reader.pc = "confirm"
    /\ done' = done \cup {ConfirmArgs.response.owner}
    /\ reader' = [reader EXCEPT !.pc = "release"]
    /\ UNCHANGED <<chanVars, call, modemVars, cmds, unsolSeen, fault>>

Caller ==
    \/ \E c \in Channels : \/ \E sh \in SyncShapes : CallSync(c, sh)
                           \/ \E sh \in AsyncShapes : CallAsync(c, sh)
    \/ CallReturns

CommandThread == at_send_command_sync \/ at_send_command

ReaderThread ==
    \/ \E c \in Channels : channelReader(c)
    \/ ReadSmsPdu
    \/ processLine
    \/ SignalIssuer
    \/ ReleaseResponse

\* Nothing left to do: no call in progress, no line unread, no command
\* unanswered.  The daemon then sleeps in select() and in libril's loop.
Quiescent ==
    /\ call.pc = "idle" /\ reader.pc = "select"
    /\ \A c \in Channels : tty[c].toHost = <<>> /\ tty[c].pending = <<>>

Sleep == Quiescent /\ UNCHANGED atVars

\* After a NULL dereference the process is gone, and its threads with it.
Crashed == fault /\ UNCHANGED atVars

AtNext ==
    \/ Caller
    \/ CommandThread
    \/ ReaderThread
    \/ ConfirmReturns
    \/ Modem
    \/ Sleep
    \/ Crashed

\* The threads are scheduled fairly and the modem answers every command.
AtFairness ==
    /\ WF_atVars(CommandThread \/ CallReturns)
    /\ WF_atVars(ReaderThread \/ ConfirmReturns)
    /\ \A c \in Channels : WF_atVars(ModemFinal(c, "ERROR") \/ ModemFinal(c, "OK"))

AtSpec == AtInit /\ [][AtNext]_atVars /\ AtFairness

-----------------------------------------------------------------------------
(* Properties *)

AtTypeOK ==
    /\ DOMAIN channels = Channels
    /\ \A c \in Channels : ChannelTypeOK(channels[c])
    /\ mutex \in [Channels -> {"cmd", "reader", NULL}]
    /\ cond \in [Channels -> SUBSET {"cmd", "reader"}]
    /\ s_readerClosed \in {0, 1}
    /\ call \in [pc : {"idle", "enter", "write", "wait", "returned",
                       "crashed"},
                 id : {0} \cup Ids,
                 err : {0, AT_ERROR_GENERIC, AT_ERROR_CHANNEL_CLOSED},
                 out : ATResponse \cup {NULL}]
    /\ reader \in [pc : {"select", "sms", "process", "signal", "confirm",
                         "release", "crashed"},
                   channelID : Channels \cup {NULL}, line : Lines \cup {NULL}]
    /\ \A c \in Channels :
          /\ tty[c].toHost \in Seq(Lines)
          /\ tty[c].pending \in Seq(Ids)
          /\ tty[c].emitted \in 0..MaxIntermediate
          /\ tty[c].prompted \in BOOLEAN /\ tty[c].body \in BOOLEAN
    /\ nUnsol \in 0..MaxUnsol
    /\ cmds \in Seq(Commands) /\ Len(cmds) <= MaxCalls
    /\ done \subseteq Ids
    /\ unsolSeen \subseteq [s : Lines, sms_pdu : Lines \cup {NULL}]
    /\ fault \in BOOLEAN

\* The responses that reached an issuer in this state: the one a returned
\* at_send_command_sync stored in *pp_outResponse, and the one
\* handleFinalResponse is passing to s_onConfirmHandler.
Delivered ==
    {r \in {call.out} : call.pc = "returned" /\ r # NULL}
      \cup {ConfirmArgs.response : x \in {r \in {reader.pc} : r = "confirm"}}

\* At most one command per channel is waiting for its final response at the
\* modem: at_send_command and at_send_command_sync do not write a command
\* while sp_response of the channel is set, even when the next call starts
\* between the reader's call of the confirm handler and its release of the
\* response.
OneCommandInFlight ==
    \A c \in Channels : Len(tty[c].pending) <= 1

\* A response an issuer receives was allocated for the issuer's own command
\* and is closed by the final line the modem wrote for that command; the
\* cookie handleFinalResponse passes to the confirm handler is the one
\* at_send_command was called with for it.
OutcomeBelongsToCommand ==
    /\ \A r \in Delivered :
          /\ r.finalResponse # NULL
          /\ r.finalResponse.of = r.owner
    /\ call.pc = "returned" /\ call.out # NULL => call.out.owner = call.id
    /\ reader.pc = "confirm" =>
          /\ cmds[ConfirmArgs.response.owner].fn = "async"
          /\ cmds[ConfirmArgs.response.owner].cookie = ConfirmArgs.cookie

\* The information lines of a command's answer are in the delivered
\* response in the order the modem wrote them: addIntermediate builds the
\* list backwards and reverseIntermediates flips it before the issuer sees
\* it (needResponse set, as every caller that reads the list has it).
OwnLines(r) == SelectSeq(r.p_intermediates, LAMBDA l : l.of = r.owner)

IntermediatesInArrivalOrder ==
    \A r \in Delivered :
        cmds[r.owner].shape.needResponse = 1 =>
            \A i, j \in DOMAIN OwnLines(r) :
                i < j => OwnLines(r)[i].n < OwnLines(r)[j].n

\* The reader never goes through channels[c].sp_response after the issuer
\* cleared it: processLine tests the pointer once, without the mutex, and
\* dereferences it later.
ResponseNeverUsedAfterRelease == ~fault

\* Once handleFinalResponse stored the final line, the response is closed:
\* no later line of the channel is added to it while the issuer has not
\* picked it up.  (reverseIntermediates' comment: the list is flipped
\* "before passing on to the command issuer".)
FinalClosesResponse ==
    [][\A c \in Channels :
          LET r == channels[c].sp_response IN
          (r # NULL /\ r.finalResponse # NULL /\ channels'[c].sp_response # NULL)
              => channels'[c].sp_response = r]_channels

\* Every command that was issued is completed: at_send_command_sync returns,
\* or the confirm handler is called, or the call returned an error, unless
\* the process crashed first.
EveryCommandCompletes ==
    \A id \in Ids : (Len(cmds) >= id) ~> (id \in done \/ fault)

=============================================================================
