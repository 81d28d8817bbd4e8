------------------------------ MODULE Lifecycle ------------------------------
(***************************************************************************)
(* The life of the AT channels of the Marvell RIL: mainLoop opens the ttys *)
(* (at_channel_open), starts the reader thread (at_channel_init) and       *)
(* sleeps in waitForClose; a reader whose select fails leaves its loop and *)
(* calls onATReaderClosed, which closes channel 0, sets s_closed and, in   *)
(* setRadioState, wakes mainLoop, which opens everything again.  Beside    *)
(* them the command thread sends synchronous commands.                     *)
(*                                                                         *)
(* A descriptor is a number, the smallest that is free, as open gives it;  *)
(* `files` says which tty each open descriptor is of.  The modem answers   *)
(* every command it was sent with one final line on the tty of the         *)
(* command.  select fails when the environment says so.                    *)
(***************************************************************************)
EXTENDS Integers, Sequences, FiniteSets, FiniteSetsExt

CONSTANTS
    COMMAND_CHANNEL_NUMBER, \* the channels mainLoop opens
    MaxFiles,               \* the descriptors the process may hold at a time
    MaxRounds,              \* bound: turns of mainLoop's loop, and readers
    CommandsPerCallback     \* bound: the commands of one initializeCallback

ASSUME /\ COMMAND_CHANNEL_NUMBER \in Nat \ {0}
       /\ MaxFiles \in Nat /\ MaxRounds \in Nat \ {0} /\ CommandsPerCallback \in Nat

Channels == 0..(COMMAND_CHANNEL_NUMBER - 1)
Rounds   == 1..MaxRounds
NULL     == "NULL"
MaxCommands == MaxRounds * CommandsPerCallback

RADIO_STATE_OFF         == "RADIO_STATE_OFF"
RADIO_STATE_UNAVAILABLE == "RADIO_STATE_UNAVAILABLE"

AT_ERROR_GENERIC        == -1
AT_ERROR_CHANNEL_CLOSED == -3

VARIABLES
    main,           \* where mainLoop is
    i,              \* mainLoop's i: the channel it opens next
    round,          \* calls of at_channel_init so far: initializeCallback was requested
                    \* as often
    files,          \* the open descriptors of the process, and the tty of each
    ttyFd,          \* channels[c].ttyFd
    sp_response,    \* channels[c].sp_response: NULL, "new", or "final"
    s_readerClosed, s_closed, sState,
    reader,         \* the reader thread of each round: where it is, its fdset
    cmd,            \* the command thread inside at_send_command_sync
    wire,           \* final lines the modem has sent on each tty, unread
    results         \* history: what at_send_command_sync returned

vars == <<main, i, round, files, ttyFd, sp_response, s_readerClosed, s_closed, sState,
          reader, cmd, wire, results>>

Idle == [pc |-> "idle", ch |-> 0, fd |-> -1]

Init ==
    /\ main = "open" /\ i = 0 /\ round = 0
    /\ files = <<>> /\ ttyFd = [c \in Channels |-> -1]
    /\ sp_response = [c \in Channels |-> NULL]
    /\ s_readerClosed = 0 /\ s_closed = 0 /\ sState = RADIO_STATE_UNAVAILABLE
    /\ reader = [r \in Rounds |-> [pc |-> "none", fdset |-> {}]]
    /\ cmd = Idle /\ wire = [c \in Channels |-> 0] /\ results = <<>>

\* open: the smallest descriptor that is free (0, 1 and 2 are taken); none
\* when the process holds all it may.
Descriptors == 3..(2 + MaxFiles)
LowestFree  == Min(Descriptors \ DOMAIN files)

is_all_channel_closed(fds) == \A c \in Channels : fds[c] = -1

-----------------------------------------------------------------------------
(* The radio state.                                                        *)

\* setRadioState (mutant): the state is set and nobody is woken.
setRadioState_without_broadcast(newState) ==
    /\ sState' = IF s_closed > 0 THEN RADIO_STATE_UNAVAILABLE ELSE newState
    /\ UNCHANGED main

\* setRadioState up to its unlock: closed, the state is UNAVAILABLE whatever
\* was asked for, and the sleeper of waitForClose is woken.
setRadioState(newState) ==
    /\ sState' = IF s_closed > 0 THEN RADIO_STATE_UNAVAILABLE ELSE newState
    /\ main' = IF s_closed > 0 /\ main = "pthread_cond_wait" THEN "waitForClose" ELSE main

-----------------------------------------------------------------------------
(* mainLoop.                                                               *)

\* at_channel_open: the channel has its descriptor and no response.  The
\* value it returns, -1 when pthread_mutex_init succeeds, is looked at by
\* no caller.
at_channel_open(channelID, fd) ==
    /\ ttyFd' = [ttyFd EXCEPT ![channelID] = fd]
    /\ sp_response' = [sp_response EXCEPT ![channelID] = NULL]

\* One turn of mainLoop's for loop: open and at_channel_open; or open fails
\* and the loop starts again at channel 0, with what it has opened left
\* open.
OpenChannel(ok) ==
    /\ main = "open" /\ round < MaxRounds
    /\ ok => DOMAIN files # Descriptors
    /\ IF ok
       THEN /\ files' = [fd \in DOMAIN files \union {LowestFree} |->
                             IF fd = LowestFree THEN i ELSE files[fd]]
            /\ at_channel_open(i, LowestFree)
            /\ IF i + 1 \in Channels
               THEN i' = i + 1 /\ UNCHANGED main
               ELSE main' = "s_closed = 0" /\ UNCHANGED i
       ELSE /\ i' = 0
            /\ UNCHANGED <<files, ttyFd, sp_response, main>>
    /\ UNCHANGED <<round, s_readerClosed, s_closed, sState, reader, cmd, wire, results>>

\* Line 720.
ClearClosed ==
    /\ main = "s_closed = 0"
    /\ s_closed' = 0
    /\ main' = "at_channel_init"
    /\ UNCHANGED <<i, round, files, ttyFd, sp_response, s_readerClosed, sState, reader, cmd,
                   wire, results>>

\* at_channel_init: the reader starts with the descriptors the channels
\* have now.  pthread_create returns an error number, never one below 0:
\* without a thread mainLoop goes on all the same.
at_channel_init(created) ==
    /\ main = "at_channel_init"
    /\ s_readerClosed' = 0
    /\ round' = round + 1
    /\ reader' = IF created
                 THEN [reader EXCEPT ![round + 1] =
                           [pc |-> "select", fdset |-> {ttyFd[c] : c \in Channels} \ {-1}]]
                 ELSE reader
    /\ main' = "setRadioState"
    /\ UNCHANGED <<i, files, ttyFd, sp_response, s_closed, sState, cmd, wire, results>>

\* Lines 729-734.
MainSetRadioState ==
    /\ main = "setRadioState"
    /\ sState' = IF s_closed > 0 THEN RADIO_STATE_UNAVAILABLE ELSE RADIO_STATE_OFF
    /\ main' = "waitForClose"
    /\ UNCHANGED <<i, round, files, ttyFd, sp_response, s_readerClosed, s_closed, reader, cmd,
                   wire, results>>

\* The test of waitForClose's loop under s_state_mutex.
waitForClose ==
    /\ main = "waitForClose"
    /\ IF s_closed = 0
       THEN main' = "pthread_cond_wait" /\ UNCHANGED i
       ELSE main' = "open" /\ i' = 0
    /\ UNCHANGED <<round, files, ttyFd, sp_response, s_readerClosed, s_closed, sState, reader,
                   cmd, wire, results>>

\* pthread_cond_wait may return without a signal.
SpuriousWakeup ==
    /\ main = "pthread_cond_wait"
    /\ main' = "waitForClose"
    /\ UNCHANGED <<i, round, files, ttyFd, sp_response, s_readerClosed, s_closed, sState,
                   reader, cmd, wire, results>>

-----------------------------------------------------------------------------
(* The reader thread of round r.                                           *)

At(r, label) == reader[r].pc = label
Goto(r, label) == reader' = [reader EXCEPT ![r].pc = label]

\* at_channel_close: the descriptor is closed and forgotten; with every
\* channel closed the reader counts as closed.
at_channel_close(channelID) ==
    /\ files' = [fd \in DOMAIN files \ {ttyFd[channelID]} |-> files[fd]]
    /\ ttyFd' = [ttyFd EXCEPT ![channelID] = -1]
    /\ s_readerClosed' = IF is_all_channel_closed(ttyFd') THEN 1 ELSE s_readerClosed

\* A final line is read from a channel the reader selects on: the sleeper
\* of at_send_command_sync is signalled; without a response the line is
\* taken for an unsolicited one.
ReadFinal(r, c) ==
    /\ At(r, "select") /\ ttyFd[c] \in reader[r].fdset \cap DOMAIN files
    /\ wire[files[ttyFd[c]]] > 0
    /\ wire' = [wire EXCEPT ![files[ttyFd[c]]] = @ - 1]
    /\ IF sp_response[c] = "new"
       THEN /\ sp_response' = [sp_response EXCEPT ![c] = "final"]
            /\ cmd' = IF cmd.pc = "pthread_cond_wait" /\ cmd.ch = c
                      THEN [cmd EXCEPT !.pc = "woken"] ELSE cmd
       ELSE UNCHANGED <<sp_response, cmd>>
    /\ UNCHANGED <<main, i, round, files, ttyFd, s_readerClosed, s_closed, sState, reader,
                   results>>

\* select fails and readerLoop ends in onReaderClosed, which calls the
\* handler once.
onReaderClosed(r) ==
    /\ At(r, "select") /\ r < MaxRounds
    /\ s_readerClosed' = 1
    /\ Goto(r, IF s_readerClosed = 0 THEN "at_channel_close" ELSE "done")
    /\ UNCHANGED <<main, i, round, files, ttyFd, sp_response, s_closed, sState, cmd, wire,
                   results>>

\* onATReaderClosed (mutant): s_closed = 1 before at_channel_close(0).
onATReaderClosed_flag_first(r) ==
    \/ /\ At(r, "at_channel_close") /\ Goto(r, "s_closed = 1")
       /\ s_closed' = 1
       /\ UNCHANGED <<main, i, round, files, ttyFd, sp_response, s_readerClosed, sState, cmd,
                      wire, results>>
    \/ /\ At(r, "s_closed = 1") /\ Goto(r, "setRadioState")
       /\ at_channel_close(0)
       /\ UNCHANGED <<main, i, round, sp_response, s_closed, sState, cmd, wire, results>>
    \/ /\ At(r, "setRadioState") /\ Goto(r, "done")
       /\ setRadioState(RADIO_STATE_UNAVAILABLE)
       /\ UNCHANGED <<i, round, files, ttyFd, sp_response, s_readerClosed, s_closed, cmd,
                      wire, results>>

\* onATReaderClosed on the reader thread, in its three statements:
\* at_channel_close(0), s_closed = 1, setRadioState.
onATReaderClosed(r) ==
    \/ /\ At(r, "at_channel_close") /\ Goto(r, "s_closed = 1")
       /\ at_channel_close(0)
       /\ UNCHANGED <<main, i, round, sp_response, s_closed, sState, cmd, wire, results>>
    \/ /\ At(r, "s_closed = 1") /\ Goto(r, "setRadioState")
       /\ s_closed' = 1
       /\ UNCHANGED <<main, i, round, files, ttyFd, sp_response, s_readerClosed, sState, cmd,
                      wire, results>>
    \/ /\ At(r, "setRadioState") /\ Goto(r, "done")
       /\ setRadioState(RADIO_STATE_UNAVAILABLE)
       /\ UNCHANGED <<i, round, files, ttyFd, sp_response, s_readerClosed, s_closed, cmd,
                      wire, results>>

-----------------------------------------------------------------------------
(* The command thread: at_send_command_sync.                               *)

\* The callbacks mainLoop has requested (line 730): one a turn, once the
\* radio state is set.
Requested == IF main \in {"waitForClose", "pthread_cond_wait"} \/ round = 0
             THEN round ELSE round - 1

Returns(err) ==
    /\ results' = Append(results, err)
    /\ cmd' = Idle

\* initializeCallback's next command: lines 880-908 and writeline's test of
\* the channel.
at_send_command_sync(c) ==
    /\ cmd.pc = "idle" /\ Len(results) < Requested * CommandsPerCallback
    /\ sp_response[c] = NULL
    /\ IF ttyFd[c] < 0 \/ s_readerClosed > 0
       THEN Returns(AT_ERROR_CHANNEL_CLOSED) /\ UNCHANGED sp_response
       ELSE /\ cmd' = [pc |-> "write", ch |-> c, fd |-> ttyFd[c]]
            /\ sp_response' = [sp_response EXCEPT ![c] = "new"]
            /\ UNCHANGED results
    /\ UNCHANGED <<main, i, round, files, ttyFd, s_readerClosed, s_closed, sState, reader, wire>>

\* writeline's write to the descriptor it read before its test, and the
\* modem's answer to what it was sent.
writeline ==
    /\ cmd.pc = "write"
    /\ IF cmd.fd \in DOMAIN files
       THEN /\ wire' = [wire EXCEPT ![files[cmd.fd]] = @ + 1]
            /\ cmd' = [cmd EXCEPT !.pc = "pthread_cond_wait"]
            /\ UNCHANGED <<sp_response, results>>
       ELSE /\ Returns(AT_ERROR_GENERIC)
            /\ sp_response' = [sp_response EXCEPT ![cmd.ch] = NULL]
            /\ UNCHANGED wire
    /\ UNCHANGED <<main, i, round, files, ttyFd, s_readerClosed, s_closed, sState, reader>>

\* Lines 912-931 after the signal.
Woken ==
    /\ cmd.pc = "woken"
    /\ Returns(IF s_readerClosed > 0 THEN AT_ERROR_CHANNEL_CLOSED ELSE 0)
    /\ sp_response' = [sp_response EXCEPT ![cmd.ch] = NULL]
    /\ UNCHANGED <<main, i, round, files, ttyFd, s_readerClosed, s_closed, sState, reader, wire>>

-----------------------------------------------------------------------------

MainThread ==
    \/ \E ok \in BOOLEAN : OpenChannel(ok)
    \/ ClearClosed
    \/ \E created \in BOOLEAN : at_channel_init(created)
    \/ MainSetRadioState
    \/ waitForClose

ReaderThread(r) ==
    \/ \E c \in Channels : ReadFinal(r, c)
    \/ onReaderClosed(r)
    \/ onATReaderClosed(r)

CommandThread ==
    \/ \E c \in Channels : at_send_command_sync(c)
    \/ writeline
    \/ Woken

\* The daemon sleeps: mainLoop in waitForClose, nothing to read, no command
\* to send or to wake.
Quiet ==
    /\ main = "pthread_cond_wait" \/ (main = "open" /\ round = MaxRounds)
    /\ UNCHANGED vars

Next ==
    \/ MainThread
    \/ SpuriousWakeup
    \/ \E r \in Rounds : ReaderThread(r)
    \/ CommandThread
    \/ Quiet

Spec == Init /\ [][Next]_vars

\* The threads are scheduled when they can run; nobody promises that open
\* succeeds, that select fails or that a wait ends by itself.
FairSpec ==
    /\ Spec
    /\ WF_vars(ClearClosed \/ (\E created \in BOOLEAN : at_channel_init(created))
                   \/ MainSetRadioState \/ waitForClose)
    /\ \A r \in Rounds : WF_vars(onATReaderClosed(r))

-----------------------------------------------------------------------------
(* Properties.                                                             *)

\* onATReaderClosed closes channel 0 before it sets s_closed, and mainLoop
\* starts a reader only after it has seen s_closed and opened every channel:
\* a reader in select waits on the descriptors the channels have now, each
\* open and of the channel's own tty, although the reader that failed is
\* still finishing its handler while mainLoop opens.
ReaderSelectsTheChannels ==
    \A r \in Rounds : At(r, "select") =>
        /\ reader[r].fdset = {ttyFd[c] : c \in Channels}
        /\ \A c \in Channels : ttyFd[c] \in DOMAIN files /\ files[ttyFd[c]] = c

\* mainLoop's "Re-opening after close": when the reader thread has ended
\* through onATReaderClosed, mainLoop leaves waitForClose and opens the
\* channels again.  s_closed is written without s_state_mutex; it is the
\* broadcast of setRadioState, sent under the mutex after the write, that
\* makes the wake-up safe.
ClosedChannelsAreReopened ==
    \A r \in Rounds :
        (At(r, "done") /\ round = r)
            ~> (round > r \/ main \in {"open", "s_closed = 0", "at_channel_init"})

\* at_send_command_sync sleeps until handleFinalResponse signals its
\* channel, which processLine does for a channel that has a response: a
\* command thread asleep there still has its response, so that the final
\* line can wake it (the Fixme of at_send_command_sync, "If AT CMD Server
\* Crash and restart, here will never return", is about the same wait).
SleeperKeepsItsResponse ==
    cmd.pc = "pthread_cond_wait" => sp_response[cmd.ch] = "new"

\* at_channel_close is the counterpart of at_channel_open: the process
\* holds one descriptor for each channel at most.
OneDescriptorPerChannel ==
    Cardinality(DOMAIN files) <= COMMAND_CHANNEL_NUMBER

\* mainLoop's "Init radio state to RADIO OFF" and setRadioState's "If we're
\* closed, the only reasonable state is RADIO_STATE_UNAVAILABLE": with the
\* channels open again, mainLoop asleep and no handler of a failed reader
\* about to set the state, the state is the one mainLoop set.
RadioStateFollowsChannel ==
    (main = "pthread_cond_wait" /\ s_closed = 0 /\ \A r \in Rounds : ~At(r, "setRadioState"))
        => sState = RADIO_STATE_OFF

=============================================================================
