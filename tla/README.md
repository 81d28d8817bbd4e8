# MetaOS RIL and platform services: TLA+ models

This directory holds the TLA+ specifications of the concurrent parts of the
MetaOS tree, the TLC configurations that check them, and `PROJECT.json`, which
lists every component, run, mapped definition, finding and hazard in machine
readable form.  Sections 3 to 5, 11 and 13 are about the Marvell RIL
(`src/vendor/marvell/generic/marvell-ril`), the daemon that turns telephony
requests into AT commands on several serial channels of the modem; sections
6 to 10, 12, 14, 15 and 16 are about the programs around it: the GPS library
glue, the AT reader daemon, the Wi-Fi connect tool, the recovery tool with
its command socket and its display, the callers of the key service and the
cloud storage, the PDU test client, and the menus and update scripts of the
recovery tool.  Section 17 lists the runs, section 18 what is not modelled.

## 1. Inventory of the system

### 1.1 Parts

| Part | Source | State | Operations |
|---|---|---|---|
| AT channel layer, issuer side | `atchannel.c` 874-994 | `channels[c]` (`sp_response`, `s_type`, `s_responsePrefix`, `s_smsPDU`, `isBlocked`, `needResponse`, `sessionCookie`), `mutex[c]`, `cond[c]` | `at_send_command` (asynchronous), `at_send_command_sync` (blocks), `writeline` |
| AT channel layer, reader thread | `atchannel.c` 567-672 | the line in the reader's hand, `s_readerClosed` | `readerLoop`, `channelReader`, the two-line SMS path, `onReaderClosed` |
| Response classifier | `atchannel.c` 128-396 | none (reads the channel's fields) | `processLine`, `isFinalResponseSuccess/Error`, `isSMSUnsolicited`, `isCallUnsolicited`, `handleFinalResponse`, `handleUnsolicited`, `addIntermediate`, `reverseIntermediates`, `writeCtrlZ` |
| Line framer | `atchannel.c` 405-542 | `ATBuffer`, `ATBufferCur` | `readChannel`, `findNextEOL`, `getline` |
| Channel lifecycle | `atchannel.c` 760-822, `marvell-ril.c` 596-739 | `ttyFd`, `s_readerClosed`, `s_closed` | `at_channel_init`, `at_channel_open`, `at_channel_close`, `mainLoop`, `waitForClose`, `onATReaderClosed` (`onATTimeout` is registered and never called) |
| Session queue and channel arbitration | `marvell-ril.c` 428-594 | `descriptions[c].lastSession` (linked list, newest first), `descriptions[c].state`, `globalSessionID` | `enqueueSession`, `removeSession`, `getSession`, `findSessionByCookie`, `isSessionPending`, `getChannel`, `putChannel`, `postCallback`, `processNextRequest`, `continueProcessRequest` |
| Request dispatcher | `marvell-ril.c` 862-985, 1058-1277, 1328-1383 | the token of each request | `onRequest`, `judgeServiceOnRequest`, `onConfirm` |
| Unsolicited router | `marvell-ril.c` 987-1041, 1284-1325 | none | `judgeServiceOnUnsolicited`, `onUnsolicited` |
| Radio state machine | `marvell-ril.c` 194-306, `ril-sim.c` 385-398, 442-482, 900-953, `ril-dev.c` 144-268, `ril-mm.c` 533-545 | `sState`, `sFirstGet`, `s_newrilconnection`, `AfterCPReset`, `s_state_mutex/cond` | `setRadioState`, `onCurrentState`, `reportLatestRadioState`, `updateRadioState` |
| Modem initialisation | `marvell-ril.c` 335-423 | none | `initializeCallback` (a sequence of synchronous commands) |
| Services (call control, device, network, SMS, packet data, SIM, supplementary) | `ril-cc.c`, `ril-dev.c`, `ril-mm.c`, `ril-msg.c`, `ril-ps.c`, `ril-sim.c`, `ril-ss.c` | request tables; registration cache (`ril-mm.c`); PDP context table (`ril-ps.c`) | `onRequest_*`, `onConfirm_*`, `onUnsolicited_*`, the callbacks, among them the chains that reuse a session for a second command (`callback_DeviceIdentity1`, `callback_SetupDefaultPDP`, `replyCpin`) |
| Data interface helpers | `dataapi.c` | none | `configureInterface`, `enablePPPInterface`, ... (ioctl and process control) |
| Reference RIL skeleton | `src/hardware/ril/ril-reader/reference-ril.c` | `s_closed` | `mainLoop`, `waitForClose` |
| rild test clients | `src/hardware/ril/rild/sendmessage.c`, `sendPDU.c` | `buf[1024]` and the length `snprintf` returns | one request over the debug socket |
| GPS HAL | `src/hardware/libhardware_legacy/gps/gps_marvell_sirf.c` | `GpsState`, `NmeaReader` | NMEA tokenizer and reader, `gps_timer_thread`, start/stop, AGPS callbacks |
| Wi-Fi connect tool | `src/hardware/libhardware_legacy/wificonnect.c` | none | `init_stage` ... `dhcp_stage` |
| Mobile broadband binder interface | `IMobileBroadbandService.cpp/.h` | none | binder proxy (generated pattern) |
| Recovery | `src/bootable/recovery/recovery.c`, `utils.c` 82-119 | boot message, menu state, the static tables `name` and `scripts` | `main`, `get_args`, `finish_recovery`, `prompt_and_wait`, `get_menu_selection`, `enter_remote_update`, `find_sdcard_update_script`, `yh_sdcard_update`, `wipe_data` |
| Recovery command socket | `src/bootable/recovery/socket_server.c` | listening socket | `init_server`, `event_loop`, `process_cmd` |
| Key service client | `CA.c`, `utils.c` | none of its own: the buffers of its callers | `check_register`, `apply_random`, `cpk_authentication`, the parsers of their replies, `is_priKey_exist`, `URLEncode` |
| Cloud storage client | `cloudstorage.c` | `curl_handle`, `curl_http_response_code`, the 4096 bytes of `curl_memory_chunk` | `putFile`, `getFile`, `rest`, `writeMemoryCallback`, `uploadLocalFile`, `downloadCloudFile`, `deleteCloudFile`, `test` |
| Backup service | `backup_service.c` | the static `randoms` | `main`, `backup_action` |
| CPK library test | `test_cpk.c` | none | calls into the CPK library |
| Recovery graphics | `minui/graphics.c` | the two pages of the frame buffer, `gr_active_fb`, the surface in memory, the descriptors, `g_gr_auto_text_color` | `gr_init`, `gr_exit`, `gr_flip`, `gr_text`, `gr_fill`, `gr_blit`, `gr_color` |

### 1.2 Threads and how the parts interact

* The **command thread** belongs to libril (not in this tree).  `ril.h` and
  the comment above `onRequest` (`marvell-ril.c` 1053-1055) say that
  `onRequest` is always called from that one thread; the callbacks scheduled
  with `RIL_requestTimedCallback` (`processNextRequest`,
  `continueProcessRequest`, `initializeCallback`) run on it too.  It is the
  only thread that calls `at_send_command` and `at_send_command_sync`.
* The **reader thread** (`readerLoop`) multiplexes all channels with
  `select`, frames lines, classifies them and completes commands: it signals a
  blocked synchronous issuer, or calls `onConfirm`, which runs the service's
  callback, removes the session, frees the channel and schedules
  `processNextRequest`.  It also delivers unsolicited lines to
  `onUnsolicited`.
* The **main loop thread** opens the ttys, starts the reader and sleeps in
  `waitForClose` until `onATReaderClosed` sets `s_closed`.
* The **modem** answers each command with optional information lines and one
  final line, and sends unsolicited lines at any time.

The issuer works under `mutex[c]`; the reader reads and writes `channels[c]`
without it and takes it only to signal and to clear `sp_response`.  The
session queue is protected by `descriptions[c].mutex`, taken and released
inside each queue function, so a sequence of queue calls is not atomic.

### 1.3 What makes it hard

* `sp_response` is the only thing that says "a command is in flight"; two
  threads read and write it, one of them without the lock.
* Synchronous and asynchronous commands share a channel.
* `onRequest` on the command thread and `onConfirm` on the reader thread
  change the same session queue and the same `IDLE/BUSY` flag.
* A write can fail at three call sites of `at_send_command`, two of which
  ignore the result.
* Cookies wrap at `MAX_SESSION_ID` and are compared by value.
* The reader never learns that a tty reached end of file: `readChannel`
  returns nothing and `channelReader` always returns 0.

### 1.4 What must hold

| Component | Correctness properties |
|---|---|
| AT channel layer | at most one unanswered command per channel; a delivered response is the issuer's own and ends with the final line written for it; information lines are delivered in arrival order; the reader never uses a response the issuer released; every command is completed |
| Classifier | total and deterministic; final lines close a response; the prompt is answered with the PDU once and never handed to a caller |
| Session queue and dispatcher | commands reach the modem in the order their requests were queued on the channel; every token is completed exactly once; a `BUSY` channel always has a command in flight or a callback scheduled; cookies of pending sessions of a channel differ |
| Lifecycle | after the reader closed the channels are opened again and the new reader reads them; a command asleep on a channel is woken; the process holds one descriptor for each channel; the radio state follows the channels |
| Key service and cloud | a transfer is made with the signature the key service verified, for the random number it gave; the encoded signature is the encoding of what was signed and stays in its array; "success" means the cloud stored or sent the file |
| Radio state | a connected application holds `sState` whenever the threads are at rest; it is told `sState` or `RADIO_STATE_OFF` and nothing else; the first answer to a connection is `RADIO_STATE_OFF` |
| Recovery graphics | the page on the panel is not written; a word is drawn in one colour; the surface is freed once |
| PDU test client | the frames sent are the five of the protocol, and their bytes are bytes of the buffer |
| Recovery tool | a command of the main system is done before the main system starts again, wherever the power is lost; an install from the card starts the tool again; the child of the update menu runs a script of the directory, read and written inside the tables |
| Line framer | the lines returned are exactly the non-empty lines of the byte stream, whatever the chunking |

## 2. Plan

Modules, in the order they are written (the most important behaviour first):

1. **`AtChannel`** - the channel layer with both threads and the modem.
   *Done, see section 3.*
2. **`Dispatcher`** - extends `AtChannel` with the session queue, the channel
   flag, the timed callbacks of the command thread, `onRequest`, `onConfirm`,
   `postCallback`, `processNextRequest`, `continueProcessRequest` and command
   chains.  *Done, see section 4.*  The radio-state gate at the head of
   `onRequest` is in `RadioState` (step 10).
3. **`ChannelService`** - the abstract promise of a channel (requests are
   served one at a time, in order, each completed once), and `Dispatcher`
   shown to implement it through a refinement mapping.  *Done, see section
   4.4.*
4. **`Lifecycle`** - `mainLoop`, `at_channel_open/close/init`,
   `onReaderClosed`, `onATReaderClosed`, `waitForClose`: channel loss and
   reopening, with `setRadioState`.  *Done, see section 11.*  Still open
   here: the sessions that are queued on a channel when it closes.
5. **`LineFramer`** - the reader's select loop with `readChannel`,
   `findNextEOL` and `getline` over a byte-level buffer, the buffer limit
   `MAX_AT_RESPONSE` scaled down, and `read()` at end of file.  *Done, see
   section 5.*
6. **`Router`** - `judgeServiceOnRequest` and the ordered prefix table of
   `judgeServiceOnUnsolicited`.  *The part that reaches the radio state is
   in `RadioState`; the tables themselves are data, see section 18.*
7. **Services** - the request tables of `ril-*.c` as data, the command
   chains, the registration cache of `ril-mm.c`, the CP reset path.  *The
   chains are in `Dispatcher`, the CP reset path in `RadioState`.*
8. **`Nmea`/`Gps`**, **`RilReader`**, **`WifiConnect`**,
   **`RecoverySocket`**, **`Recovery`** - the programs outside the RIL,
   composed into one model by **`Programs`**.  *Done, see sections 6 to 10.*
9. **`CloudAuth`** - `backup_service.c`, `CA.c`, `utils.c`,
   `cloudstorage.c` and the authentication of `enter_remote_update`, the
   sixth program of `Programs`.  *Done, see section 12.*
10. **`RadioState`** and **`RadioReport`** - everything that reads or sets
   the radio state on the three threads, and the abstract specification it
   implements.  *Done, see section 13.*
11. **`Graphics`**, **`SendPdu`** - the display of the recovery tool and the
   PDU test client, the seventh and eighth program of `Programs`.  *Done,
   see sections 14 and 15.*
12. **`Menu`** and **`UpdateScripts`** - `get_menu_selection` as an operator
   over the keys of the user, which every menu of `Recovery` takes its
   answers from, and `find_sdcard_update_script` with the menu and the
   child of `enter_remote_update`, the ninth program of `Programs`.
   *Done, see section 16.*

`Dispatcher` composes with `AtChannel` by extension: the command thread's call
frame (`call`) and the reader's stop at the confirm handler (`reader.pc =
"confirm"`) are the interface, and `Dispatcher` replaces the stand-alone caller
and confirm handler of `AtChannel` by the real ones.  `LineFramer` stands
alone: it ends where `AtChannel` begins, at the line `getline` returns to
`channelReader`, and the two share no state but that line.

`Lifecycle` stands alone as well: it keeps of a command its write, its sleep
and its final line, which is all that the opening and closing of channels
can change, and leaves the classification of lines to `AtChannel`.  Modules
that are small and independent are composed into one model (`Programs`), so
that the whole suite stays a dozen runs that finish in minutes; a violation
that has no run of its own has a configuration beside the runs (section
17).

## 3. `AtChannel` (atchannel.c)

### 3.1 State

| Variable | Code |
|---|---|
| `channels[c]` | `struct channel_struct channels[]`; `sp_response` is `NULL` or a record `success, finalResponse, p_intermediates` (head first) |
| `mutex[c]`, `cond[c]` | holder of `mutex[c]`; threads asleep in `pthread_cond_wait(&cond[c], ..)` and not yet signalled |
| `s_readerClosed` | the flag of the same name |
| `call` | the command thread's frame inside `at_send_command[_sync]`: position, error code, `*pp_outResponse` |
| `reader` | the reader's position and the line it holds |
| `tty[c]` | the modem's side: lines written and not yet read, commands not yet answered, progress of the oldest |
| `cmds`, `done`, `unsolSeen`, `fault` | ghost: the commands issued, the ones completed, the calls of `s_unsolHandler`, and whether the process dereferenced NULL |

A line is a record `[kind, pfx, of, n]`.  `kind` and `pfx` are what the
classifier's `strStartsWith` tests can tell apart (`OK`, `CONNECT`, the error
finals, `NO CARRIER`, the `"> "` prompt, a line that begins with a digit, a
line that begins with a given prefix, a call indication, the first and second
line of an SMS indication, anything else).  `of` and `n` are ghost tags: the
command the modem wrote the line for and its position in that answer.

### 3.2 Actions

| Action | Code | Step |
|---|---|---|
| `WaitForChannel` | 880-885, 949-956 | lock; `sp_response != NULL`: sleep on `cond[c]` |
| `ClaimChannel` | 887-907, 958-973 | lock (a sleeper of 884 or 955 has been woken); set the channel's fields and a fresh response; keep the mutex |
| `SyncWriteline` | 908-912, 933-939 | `writeline`; on success sleep on `cond[c]` (the mutex is released atomically), on failure clear and return |
| `SyncReturn` | 911-931 | the wait of line 911 has returned: hand `sp_response` over or free it, clear it, return |
| `AsyncWriteline` | 980-993 | `writeline`, unlock, return; on failure clear first |
| `channelReader(c)` | 567-611, 290-299 | take one line; SMS first line, or unsolicited at once, or go on into `processLine` |
| `ReadSmsPdu` | 587-602 | the reader stays on the same channel until the next line arrives and takes it as the PDU |
| `processLine` | 301-396, 239-253 | the else-if chain on the channel's current fields: final line (store, flip), prompt (`writeCtrlZ`, clear PDU), information line, unsolicited; a dereference of a cleared `sp_response` is the crash |
| `SignalIssuer` | 255-261 | lock, signal, unlock |
| `ReleaseResponse` | 267-271 | after the confirm handler: lock, free and clear, signal, unlock |
| `Modem*` | environment | prompt, information lines, final line, unsolicited lines |

The reader's steps are split exactly where the code reads shared memory
without the mutex: the test of line 294 is one step and the rest of the chain
another.  `writeline` and the `pthread_cond_wait` that follows it are one step
because the only thing that changes in between is the mutex, which the reader
does not need for `processLine`.

The waits.  `Woken(t, c)` says when `pthread_cond_wait` returns for thread
`t`: when `t` has been signalled, or at any time when the constant
`SpuriousWakeups` is `TRUE`, which POSIX allows and the futex wait of bionic
does.  The waits of lines 884 and 955 are in a loop on `sp_response`, so an
early return sends them to sleep again (`WaitForChannel`); the wait of line
911 is in no loop, and `SyncReturn` takes its return for the signal.
`at_response_new` is taken to succeed: lines 974-978, and what the
synchronous call does with a NULL it does not test for, are not modelled.

### 3.3 Runs

| Run | Checks | Result |
|---|---|---|
| `at_safety` | `AtTypeOK`, `OneCommandInFlight`, `OutcomeBelongsToCommand`, `IntermediatesInArrivalOrder`, deadlock | pass, 1.1 million states |
| `at_liveness` | `EveryCommandCompletes` | pass |
| `at_use_after_release` | `ResponseNeverUsedAfterRelease` | violated: finding 1 |
| `AtChannel_late.cfg` (kept beside the runs, `tlc -config AtChannel_late.cfg MCAtChannel`) | `FinalClosesResponse` | violated: finding 2 |
| `AtChannel_wakeup.cfg` (kept beside the runs, `tlc -config AtChannel_wakeup.cfg MCAtChannel`) | `OutcomeBelongsToCommand` with `SpuriousWakeups = TRUE` | violated after four steps: the caller is handed a response without its final line |

Bounds.  Two channels: channel 0 is both `CHANNEL_DATA` and
`CHANNEL_UNSOLICITED` (the BROWNSTONE numbering), channel 1 is neither (a
service channel of the DKB numbering).  `MaxCalls = 2` commands are enough for
the second command to meet the first one's completion; the shapes are the ones
the RIL issues (no result, single line, multi line, with and without PDU,
synchronous with NULL prefix and PDU).  `MaxIntermediate = 2` lets a list be
out of order.  `MaxUnsol = 1` unsolicited line (a call indication, an SMS
pair, or a `+CREG:` that looks like an answer) is enough to fall into every
window.  `WriteMayFail` lets every `write` fail.  `SpuriousWakeups` is
`FALSE` in the runs that pass: they show what the channel layer does when
every wait returns on its signal, and `AtChannel_wakeup.cfg` what it does
when one does not.

Deadlock.  The model has an explicit `Sleep` step for the quiescent daemon
(nothing in flight, nothing to read) and a `Crashed` step after a NULL
dereference, so TLC's deadlock check reports exactly the states in which a
thread is stuck.  The liveness run switches the deadlock check off so that a
stuck thread is reported as the violated `EveryCommandCompletes`.

Fairness.  Weak fairness of the command thread's and of the reader's steps
(both are ordinary threads that are scheduled when runnable) and of the
modem's final line (a modem that never answers makes every command hang; the
code has no timeout, see hazards).  No fairness for new calls and unsolicited
lines.

## 4. `Dispatcher` (marvell-ril.c)

`Dispatcher` extends `AtChannel`: it keeps the channel layer's variables and
actions and adds the layer above it.

### 4.1 State

| Variable | Code |
|---|---|
| `descriptions[c]` | `lastSession` (the linked list, newest first, as a sequence of sessions) and `state` (`CHANNEL_IDLE`/`CHANNEL_BUSY`), both under `descriptions[c].mutex` |
| `heap[t]`, `freed` | the `struct requestSession` allocated for the request with token `t`; the sessions given to `free()` |
| `globalSessionID` | the counter of the same name |
| `timed` | the callbacks handed to `RIL_requestTimedCallback` and not yet run, as a bag; libril runs them on the command thread in any order |
| `job` | what the command thread runs for libril: `onRequest`, `processNextRequest` or `continueProcessRequest`, and how far it got |
| `conf` | the reader's position inside `onConfirm`/`postCallback` |
| `requests`, `completions`, `served` | ghost: the requests submitted, the number of `RIL_onRequestComplete` per token, the sessions handed to `at_send_command` per channel |

A request is what a service handler makes of it: the value of
`continue_flag`, the channel, the shape of the command, and for a session
whether its callback ends the request (`callback_Default`) or chains a second
command (`callback_Chain`, as `replyCpin`, `callback_DeviceIdentity1` and
`callback_SetupDefaultPDP` do).

### 4.2 Actions

| Action | Code | Step |
|---|---|---|
| `onRequest_local` | `marvell-ril.c` 1265-1270 | the handler answered the request itself |
| `onRequest_sync`, `SyncRequestDone` | `ril-ps.c` 84-111 | the handler sends one synchronous command and completes the token |
| `onRequest_async` | 1215-1242 | allocate and number the session, `enqueueSession` |
| `getChannel` | 549-566, 1243-1247, 580-581 | take an idle channel, or return and leave the session queued |
| `SendOldest` | 1249-1256, 586-593 | `getSession`; none: `putChannel`; else `at_send_command` with its fields |
| `onRequest_sent` | 1256-1262 | error: `putChannel` and complete the token with a failure |
| `processNextRequest(c)` | 575-579 | a scheduled callback starts: return if the queue is empty |
| `continueProcessRequest(c)` | 527-533 | send the command of `getSession`, unchecked |
| `ResultIgnored` | 532, 593 | the callbacks drop the result of `at_send_command` |
| `onConfirm` | 1328-1378 | `findSessionByCookie`, the callback: chain (rewrite the session, schedule `continueProcessRequest`, return 0) or complete the token (return 1) |
| `postCallback_removeSession`, `postCallback_putChannel` | 568-573 | the two locked halves of `postCallback`, then the return into `handleFinalResponse` |

Every queue function locks `descriptions[c].mutex` for its whole body and is
therefore one step; a caller's sequence of them (enqueue, then getChannel,
then getSession) is several steps, between which the other thread runs.
`at_send_command` itself is the three steps of `AtChannel`.

### 4.3 Runs

| Run | Checks | Result |
|---|---|---|
| `disp_safety` | `TokenCompletedOnce`, `NoStrandedSession`, `ConfirmFindsItsSession`, `EveryRequestCompletes`, `ImplementsChannelService`, deadlock | pass, 167 thousand states |
| `disp_failures` | `DTypeOK`, `ServedInArrivalOrder`, `IdleChannelIsScheduled`, deadlock | pass, 678 thousand states |
| `Dispatcher_findings.cfg` (kept beside the runs, `tlc -continue -config Dispatcher_findings.cfg MCDispatcher`) | `TokenCompletedOnce` and `NoStrandedSession` with failing writes | both violated: findings 3 and 4 |

Findings 3 and 4 are the two sides of one omission.  `onRequest` reacts to a
failed `at_send_command` by freeing the channel and completing the token, but
leaves the session queued, so it is sent and completed again; the two timed
callbacks do not react at all, so the channel stays `BUSY` with nothing in
flight and its queue is stuck.  `disp_failures` shows what failing writes do
not break: the order of service and the wake-up of an idle channel.

Bounds.  `MaxRequests = 3` requests: one in flight, one queued behind it and
one arriving while the reader completes the first is the smallest set in
which the queue has a head, a tail and an element between.  `MaxCalls` is
large enough that no `at_send_command` of the run waits for the bound (6
without failures: every request may chain; 9 with them: a failed command is
sent again); were it too small, the deadlock check would report the blocked
command thread.  `disp_safety` has two channels, channel
0 with every kind of request and channel 1 with plain sessions;
`disp_failures` has one channel, sessions only, and one unsolicited `RING`.  `MAX_SESSION_ID` has its
real value 9999, so ids do not wrap within the bound.  The other
dispatcher runs have no unsolicited lines (`MaxUnsol = 0`): those are the
subject of the `AtChannel` runs, and their crash (finding 1) would end the
behaviours that the dispatcher properties are about.  In `disp_failures` the
crash is reachable (a write fails while the reader holds the `RING`), and the
three properties hold up to it.

Fairness.  As for `AtChannel`, plus weak fairness of the command thread's
dispatcher steps and of the scheduled callbacks (libril runs every callback
it accepted).  No fairness for new requests.  The safety properties, the
liveness property and the refinement of section 4.4 are all questions about
the dispatcher whose writes succeed, and are checked in the one run over the
one state space.

### 4.4 The abstract service and the refinement

`ChannelService` is the promise without the mechanism: a counter of accepted
requests, per channel a queue of waiting tokens and the token being served,
the tokens a handler answers by itself, and the set of answered tokens.  Its
steps are `Enqueue`, `Begin` (a free channel takes the oldest waiting
request), `Finish`, `Handle`/`Answer` and `AnswerAtOnce`; its fairness says
that what was accepted is begun and finished.

`Dispatcher` instantiates it as `Service` with this mapping:

| Abstract | Dispatcher |
|---|---|
| `submitted` | `Len(requests)` |
| `waiting[c]` | the sessions of `lastSession` not yet handed to `at_send_command`, oldest first |
| `serving[c]` | the oldest session of the queue, from its first `at_send_command` until its token is completed |
| `direct` | the token of the synchronous handler the command thread is in |
| `completed` | the tokens with at least one `RIL_onRequestComplete` |

`onRequest_async` is `Enqueue`, the first `SendOldest` of a session is
`Begin`, the `onConfirm` that completes the token is `Finish`; the second
command of a chain, `getChannel`, `postCallback`, the timed callbacks that
find nothing to do and every step of the channel layer are stuttering steps.
`disp_safety` checks `Service!LiveSpec` as a property of `DSpec`, safety and
fairness together, with writes that succeed.  With failing writes the
refinement does not hold, for the reason of finding 3: `onRequest` completes a
token whose session is waiting.

## 5. `LineFramer` (atchannel.c 405-542, 566-672)

### 5.1 State and abstraction

| Variable | Code | Meaning |
|---|---|---|
| `ATBuffer[c][i]` | `channels[c].ATBuffer` | the buffer, byte by byte; index `MAX_AT_RESPONSE + 1` is the padding byte behind the array |
| `ATBufferCur[c]` | `channels[c].ATBufferCur` | the cursor, as an index |
| `reader` | the reader thread | `pc` (`loop`, `read`, `getline`), the channel being served, `p_read` of `readChannel`, and whether `channelReader` waits for the second line of an SMS indication |
| `readset` | `readset` of `readerLoop` | channels `select` reported that the `for` loop has not served yet |
| `wire[c]`, `flight[c]`, `eof` | the tty | bytes that arrived and were not read; bytes sent that have not arrived; the channels whose other end has hung up |
| `prompted[c]`, `sent[c]`, `got[c]` | - | the modem waits for a PDU; history of the texts sent and of the lines `getline` returned |

The buffer is modelled byte by byte because the two findings are about bytes
that stay in it.  The bytes themselves are abstracted to what the code tells
apart: `NUL`, one `EOL` byte for `\r` and `\n` (no test in the code
distinguishes them), `>` and the blank of the prompt, and the letters of the
texts.  The modem sends a line as `\r\n text \r\n` and the prompt as
`\r\n> `, after which it sends nothing until the prompt was handed on.
`Arrives` delivers the bytes under way in pieces of any size, so a `read()`
can end anywhere in a line.

### 5.2 Actions

| Action | Code |
|---|---|
| `select` | `readerLoop`: `select` returns the set of channels on which a `read()` would not block (`Readable`): those with bytes and those at end of file |
| `channelReader(c)` | the `for` loop takes the lowest channel of the set; the head of `readChannel` rewinds an empty buffer or continues a partial line (`Rewound`) |
| `readChannel(c)` | one turn of `readChannel`'s loop: the overflow test (`Ditched`), the blocking `read()` of at most `Room` bytes, the terminator, skipping newlines, `findNextEOL`; a `read()` that returns nothing (end of file, or no room left) ends `readChannel` (482-494) with the buffer as it was, and `getline` follows |
| `getline_NULL(c)` | `getline` returns NULL (buffer consumed, or partial line moved up by `MovedUp`); `channelReader` returns, or calls `readChannel` again while it waits for the PDU line of an SMS indication |
| `getline_line(c)` | `getline` returns a line, puts a NUL over its end and moves the cursor behind it and the newlines that follow |
| `ModemSends`, `Arrives`, `HangsUp`, `Waiting` | the environment: the modem, the tty, the other end closing once all it sent has arrived, and the reader asleep in `select` or `read()` |

### 5.3 Runs

| Run | Config | Result |
|---|---|---|
| `framer` | one channel, 8-byte buffer, texts `a`, `cd` (an SMS indication), the prompt and a text of 8 letters, two lines | `FramerTypeOK`, `PlainLinesAreStreamLines`, `DitchLosesButNeverInvents`, `PromptIsHandedOn`, `WireIsDrained` hold, 7,039 states |
| `framer_stale` | one channel, texts `a` and the prompt, four lines | `LinesAreStreamLines` is violated: finding 5 |
| `framer_blocked` | two channels, texts `a` and `cd`, one line per channel | `NoBlockingWhileOtherReady` is violated: finding 6 |

*Finding 5* (`atchannel.c:534`).  For the prompt `findNextEOL` returns the
address of the NUL that ends the data, and `getline` sets the cursor one byte
behind it.  The comment at that line says the cursor is always `<= p_read`.
What lies there is left from an earlier, longer read.  In the trace of
`framer_stale` a line and a first prompt are read together (`\r\n a \r\n
\r\n> `); a second prompt is then read into the start of the buffer, and
after returning it `getline` skips the old newlines behind it and finds the
first prompt, still in place and still followed by its NUL, and returns it
again.  `processLine` would write the PDU a second time.  With other contents
the stale bytes are a piece of a line, which is moved to the start of the
buffer and put in front of the next line that arrives.

*Finding 6* (`atchannel.c:465`).  The specification says the framer never
blocks and that one channel may not hold up another.  `readChannel` does not
return before the buffer holds a complete line, and the descriptors are
blocking.  In the trace a line is framed at its `\r`; the `\n` arrives
later, `select` reports the channel, `readChannel` reads the lone newline,
finds no line and sleeps in `read()`, while the bytes of the other channel
wait.  Nothing wakes the reader but the modem writing to the first channel
again.

**Bounds.**  `MAX_AT_RESPONSE = 8` stands for 0x1000: a framed line of one or
two letters fits several times, a text of 8 letters with its newlines does
not, and a read can fill the buffer to its last byte.  `MaxLines` bounds the
lines per channel; two lines are what it takes for a partial line to follow a
complete one and for a line to follow a ditched one, and the stale prompt
needs a line and two prompts, which is why `framer_stale` has four.  Every way
of cutting the bytes into arrivals is explored.  The properties of `framer`
were also checked with three lines (86,694 states), and
`PlainLinesAreStreamLines` with two channels of two lines each (487,665
states), with the same result; the run that is kept is the one that
finishes in seconds.

**Fairness.**  `WF_vars(ReaderThread)`: the reader thread is a thread of its
own and runs whenever it can.  `WF_vars(Arrives(c))`: bytes the modem has
written reach the tty.  Nothing is assumed of the modem; the two liveness
properties are checked on one channel, since with two the reader can sleep on
one of them for ever (finding 6).

`LinesAreStreamLines` is not claimed where it cannot hold.
`PlainLinesAreStreamLines` claims it of a channel on which no prompt was sent
(finding 5) and every line fits the buffer; `DitchLosesButNeverInvents`
states what remains true when bytes are ditched.

## 6. `Nmea` and `Gps` (gps_marvell_sirf.c)

The file is the glue between the Android GPS interface and the SiRF library
`libsirfgps.so`, which it loads with `dlopen` and calls through eleven
function pointers.  Two actors meet in it: the framework, which calls the
entries of `GpsInterface`, `AGpsInterface` and `GpsNiInterface` in whatever
order it likes, and the library's thread, which hands every NMEA sentence to
`gps_nmea_data_process`.

### 6.1 `Nmea`: the tokenizer and the reader as operators

A sentence is a sequence of characters.  `nmea_tokenizer_init` is `Body`
(the text between `$` and the checksum or line end) followed by `SplitFrom`,
the loop that cuts at every comma and stops filling at `MAX_NMEA_TOKENS`;
`nmea_tokenizer_get` answers an index out of range with the empty token.
`str2int` is the decimal value or -1 at the first character that is no
digit.  A reader is a record with the fields of `NmeaReader` the control
depends on (`pos`, `in`, `utc`, `fix.flags`, `fix.timestamp`, `sv_status`,
`sv_status_changed`); latitude, longitude, altitude, speed and bearing are
numbers that nothing tests and only their flags are kept.  Each
`nmea_reader_update_*` is an operator from a reader to a reader, and
`nmea_reader_parse` is the chain of `ParseGGA` ... `ParseZDA` chosen by
`SentenceId`, with the early returns of the code (a sentence shorter than
nine characters, a token shorter than five).

Two conversions are kept as the code has them and not as it means them:
`nmea_reader_update_cdate` reads the year up to `tok_y.end + 4`, four
characters into what follows the token (`PastEnd`), so the year of a ZDA
sentence never parses; `nmea_reader_update_date` tests `(day|mon|year) < 0`.

### 6.2 `Gps`: state and actions

| Variable | Code |
|---|---|
| `init`, `callbacks`, `first_fix`, `reader` | the members of `_gps_state` |
| `dlHandle`, `sirf` | `dlHandle`, and whether the `sirf_*` pointers are set (they are set and cleared together) |
| `loads` | handles `dlopen` gave and `dlclose` did not take back |
| `lsm` | the library as its callers see it: `idle`, `ready`, `running` |
| `misuse`, `crashed`, `handed` | history: `sirf_gps_init` of an initialised library; the pointer that was called when NULL; sentences so far |

Every entry of the interface is an action and contains the state function it
calls (`marvell_gps_init` contains `get_export_func` and `gps_state_init`,
`marvell_gps_cleanup` contains `gps_state_done` and `clear_exported_func`).
A call through a pointer is `CallSirf`: it reaches the library or, with the
pointer NULL, ends the process (`crashed`, after which only `Crashed`
stutters).  `dlopen`, `dlsym`, `sem_init` and `sirf_gps_init` may each fail.
`gps_nmea_data_process` is an action of the library's thread, enabled while
the library runs.  The code under `TIMER_THREAD` (undefined in this build)
and under `#if 0` is not compiled and not modelled; `fix_freq` is always -1.

### 6.3 Properties

* `TokensAreTheFields` - for every index the parser may ask for, the token is
  the field of that index of the sentence (defined independently with
  `Commas` and `Field`), empty fields included.
* `SvListWithinBounds` - the GSV loop bounds its index by the number of
  satellites the sentence announces, not by the array; the property holds for
  a receiver that announces at most `GPS_MAX_SVS`.  `Programs_overrun.cfg`
  has a receiver that announces nine with an array of five and shows the
  overrun (two sentences are enough, the second not numbered 1).
* `LibraryInitialisedOnce`, `QuitMeansLibraryIdle` - the protocol between
  `gps_state->init` and the library under every order of init, start, stop
  and cleanup and every failure of loading.
* `GpsTypeOK` - besides the types, `pos` is the length of `in` and at most
  `NMEA_MAX_SIZE`, and `sv_list` has `num_svs` entries.

Reachable and not forbidden by any property, because the code documents no
rule against them: a second `marvell_gps_init` without cleanup leaks the
first handle; after a failed `sirf_gps_init` the state is `STATE_INIT` and
`marvell_gps_start` starts a library that was never initialised; after a
failed load every later call goes through a NULL pointer.

## 7. `RilReader` (reference-ril.c)

A small daemon with two threads.  `main` reads `-p` and `-d` (`ReadOptions`
is the `getopt` loop; the `-s` case cannot be reached with the option string
`"p:d:"`), `mainLoop` opens the interface (`OpenInterface`), clears
`s_closed` and calls `at_open` (`StartChannel`), and sleeps in
`waitForClose`.  The AT channel library is the environment: one reader
thread per `at_open`, which at end of file calls `onATReaderClosed`.  That
handler is two steps, `at_close` and `s_closed = 1`, because the main thread
can run between them.  `s_fd` is the descriptor the library reads, `held`
the descriptors that are open, so that a reader left over from an earlier
`at_open` can be told from the current one.

* `ReaderReadsItsOwnChannel` (run `programs`): a reader thread that is
  reading reads the descriptor of its own `at_open`, and the daemon never
  holds two descriptors.  It depends on the order of the two statements of
  `onATReaderClosed`.
* `ClosedChannelIsReopened` (`tlc -config RilReader_reopen.cfg
  MCRilReader`, violated): after the
  reader closed the channel `mainLoop` opens it again.  `onATReaderClosed`
  writes `s_closed` without the mutex and without a signal, and nothing else
  signals `s_state_cond`: a `mainLoop` that tested `s_closed` before the
  close sleeps for ever.  Fairness: weak fairness of the main thread's steps
  and of each reader; none for `SpuriousWakeup`, which POSIX allows and
  nobody promises.

`MaxOpens = 3` channels are enough for a reader of the first to meet the
third.

## 8. `WifiConnect` (wificonnect.c)

`main` is four stages, each an action that ends in the next stage or in
`exit(-1)`.  The supplicant is the environment: `networks` (the networks it
has and which variables the tool set on each), `selected`, `associated`, and
the `queue` of events of the monitor connection, which fills from
`wifi_connect_to_supplicant` on whatever the tool is doing.  A reply is a
sequence of words; `doCommand` strips the newline, `doIntCommand` is `atoi`
(0 for a reply that is no number), `doBooleanCommand` compares with `OK`,
and the wait of `connect_stage` is `strstr` of the word `CONNECTED`.  The
tool may find a supplicant that is already associated with a stored network
(it never stops the supplicant it started).

* `SelectsAConfiguredNetwork` (run `programs`): the network selected exists
  and has the tool's `ssid` and `key_mgmt`.
* `ConfiguresOnlyItsOwnNetwork` (`WifiConnect_findings.cfg`, violated): `FAIL`
  from `ADD_NETWORK` is read as network 0, and the tool reconfigures and
  selects the stored network 0.
* `WaitEndsOnConnected` (`WifiConnect_findings.cfg`, violated):
  `CTRL-EVENT-DISCONNECTED` contains `CONNECTED`; the event the supplicant
  sends when `SELECT_NETWORK` makes it leave its old network ends the wait,
  and `dhcp_stage` runs without a connection.

`tlc -continue -config WifiConnect_findings.cfg MCWifiConnect` reports
both.  `Stored = {0}` is one stored network, `MaxEvents = 3` events of the three
kinds of `MCEvents`.

## 9. `RecoverySocket` (socket_server.c, sendmessage.c)

Records are sequences of bytes and an int is four bytes, lowest first
(`Bytes`, `IntAt`), so that `sendmessage`'s encoding and `process_cmd`'s
decoding are two definitions that have to agree.  `BUFFER = 12` stands for
the 256 bytes of `cmd`, `p_record`, `message` and `fileName`: two ints and a
text of four bytes, with command lines of ModelValues that fit, fill and
exceed it.  `sendmessage(argv)` is a whole run of the client
(`error_check`, `Command`, connect, send, close); `init_server`,
`event_loop` (bind and listen), `accept`, `recv` (one turn of the inner loop
with `process_cmd` in it) and `install_package` are the steps of the
server's thread.  `p_record` is not cleared between records and starts with
what the stack held (`Stack`).

* `RunsWhatWasSent`: what `process_cmd` runs is what the clients sent within
  the contract of the usage text, in order, each once.  It holds when every
  record arrives whole and `recv` does not fail (run `programs`).
  `RecoverySocket_recv.cfg` lets `recv` return -1: the `size_t recordlen` makes it
  `SIZE_MAX`, the loop goes on and runs the previous record again.
  `RecoverySocket_split.cfg` lets the stream cut a record after eight bytes:
  the rest is run as a command of its own.
* `CopyStaysInTheBuffers`: the lengths a client sends never make `memcpy`
  leave the record or the destination.

`SIZE_MAX` is 2^31 - 1 in the model, the largest number TLC counts to; all
that matters of it is that it is above every length.

## 10. `Recovery` (recovery.c)

`Recovery` extends `RecoverySocket`: the socket's thread runs beside the
main thread in the branch of `--socket_server`.  It extends `Menu` (section
16) as well: what the user can answer a menu with is what
`get_menu_selection` makes of the runs of keys in `KeyRuns`.

| Variable | Code |
|---|---|
| `bcb` | the bootloader message (`command`, the first line of `recovery` and the arguments after it) |
| `command_file`, `intent_file` | `CACHE:recovery/command`, `CACHE:recovery/intent` |
| `data`, `cache`, `system`, `packages` | the partitions (`used`, `erased`, `garbage`), the system image (`old`, `new`, `installing`), the package files |
| `pc`, `argv`, `opts`, `status`, `ret` | the main thread: where it is, `get_args`' result, main's option variables and `status`, where `finish_recovery` returns to |
| `waiting` | processes of the tool that wait for a child that carried on |
| `promised` | history: the options of the command `main` set out to run |

Actions follow the code's order: `get_args` (BCB first, command file second,
written back to the BCB), `main` (`Options` is the `getopt_long` loop, then
the one branch), `main_install_package`, `main_wipe_data`,
`main_wipe_cache`, `main_status`, `main_init_server`, `finish_recovery` in
its three writes (intent, BCB, unlink), `prompt_and_wait` and `menu` with an
action for each item, `wipe_data` with its confirmation of eleven items
(`ItemAnswers`), `yh_sdcard_update` with the menu of the packages (shown
only when there are packages) and the menu of what to do with one,
the three forks (`update_script`, `choose_connection_method`,
`enter_remote_update`) and `reboot`.  The environment is the bootloader
(`Boot`), the main system (`MainSystemRequests` writes a command file and
its package), the user at the keys (the `\E` of the menu actions), the
installer and the scripts (`Install`), and `PowerLoss`, enabled at every
step: what was being written is left in part (`garbage`, `installing`).
Of `enter_remote_update` the conversation with the server is its outcome
(`END`, authenticated, refused); `CloudAuth` (section 12) models the
conversation itself and ends in these three, and `UpdateScripts` (section
16) models the tables its menu is built from.  `fopen_root_path` mounts the
partition of the file first: the command file is not read and the intent is
not written while the cache is damaged.

* `CommandedWorkSurvivesRestart`: the head comment's "safely restartable at
  any point".  Once `main` has set out to run a command of the main system,
  the main system starts again only with the command done, wherever the
  power was lost in between, unless the menu has shown the failure.
* `CardInstallRestartsTheTool` (action property): `ITEM_APPLY_SDCARD`
  writes the BCB again (line 800) before `yh_sdcard_update`, so that a
  power loss while a package of the card is chosen or installed leaves
  `boot-recovery` in the BCB and the bootloader starts the tool, not the
  system that was being written.  Without that write the menu's cleared
  BCB would start a half-written system.
* `RecoveryTypeOK`: the types, and that the BCB's command and its recovery
  line are written together.

What the model reaches and the head comment does not promise: the menu
clears the BCB before every selection, so a wipe chosen there and cut by a
power loss leaves a damaged partition to the main system; a child of `fork`
whose `execl` fails carries on as a second tool; `--set_encrypted_filesystem`
of the head comment is no option of `OPTIONS`; a line of the command file
that holds only a line end gives `strdup(NULL)` (line 226).

Bounds: `RecClients = 1` client of the socket, `MaxForks = 1` stray child,
one package on the cache and one on the SD card, the ten runs of keys of
`MCKeyRuns` (section 16), six command files
(`MCCommands`: wipe data, wipe cache, an update, an intent with a wipe, the
socket server, and an option `main` does not know).

## 11. `Lifecycle` (marvell-ril.c 596-739, atchannel.c 681-940)

The opening, loss and reopening of the AT channels, with the three threads
that take part: `mainLoop`, the reader thread of each turn of its loop, and
the command thread of libril inside `at_send_command_sync`.  The module
stands beside `AtChannel`: of a command it keeps the write, the sleep and
the final line, of a line only whether it is the final one.

### 11.1 State

| Variable | Code |
|---|---|
| `main`, `i`, `round` | where `mainLoop` is, its `i`, the calls of `at_channel_init` so far |
| `files` | the descriptor table of the process: which tty each open descriptor is of; `open` gives the smallest free number (`LowestFree`) |
| `ttyFd`, `sp_response` | `channels[c].ttyFd`, `channels[c].sp_response` (NULL, new, final) |
| `s_readerClosed`, `s_closed`, `sState` | the globals of atchannel.c and marvell-ril.c |
| `reader` | for each turn, the statement its reader thread is at and the `fdset` it was started with |
| `cmd` | the command thread: idle, after `writeline`'s test with the descriptor it read, asleep in `pthread_cond_wait`, woken |
| `wire` | final lines the modem has sent on each tty and nobody has read |
| `results` | history: what `at_send_command_sync` returned |

### 11.2 Actions

| Action | Code |
|---|---|
| `OpenChannel(ok)` | one turn of the `for` of `mainLoop` (lines 648-718): `open`, `at_channel_open`; on failure `goto again` with what was opened left open |
| `ClearClosed`, `at_channel_init(created)`, `MainSetRadioState` | lines 720-734; `pthread_create` may fail and `mainLoop` goes on |
| `waitForClose`, `SpuriousWakeup` | the loop of `waitForClose` around `pthread_cond_wait` |
| `ReadFinal(r, c)` | `readerLoop`, `processLine`, `handleFinalResponse` for a final line |
| `onReaderClosed(r)` | `select` fails: `s_readerClosed = 1`, the handler is called once |
| `onATReaderClosed(r)` | its three statements, each a step: `at_channel_close(0)`, `s_closed = 1`, `setRadioState` |
| `at_send_command_sync(c)`, `writeline`, `Woken` | lines 874-940 and `writeline` (681-755) in two steps, because the descriptor is read before the test and used after it |
| `Quiet` | the daemon sleeps: a stuttering step |

`setRadioState` is modelled up to its unlock: the state and the broadcast.
The mutexes of the channels are not variables: no two steps of the model
are inside the same critical section of the code.

### 11.3 Run and properties

Run `lifecycle` (`Lifecycle.cfg`, `MCLifecycle`, 34 thousand states):

* `ReaderSelectsTheChannels`: a reader in `select` waits on the descriptors
  the channels have now, each open and of the channel's own tty, although
  the failed reader still finishes its handler while `mainLoop` opens.  It
  holds because `at_channel_close(0)` comes before `s_closed = 1`; with the
  two swapped the new reader selects on a descriptor the old one closes.
* `ClosedChannelsAreReopened` (liveness): after a reader has ended through
  `onATReaderClosed`, `mainLoop` leaves `waitForClose`.  `s_closed` is
  written without `s_state_mutex`; it is the broadcast of `setRadioState`
  after the write that wakes the sleeper.

Fairness (`FairSpec`): weak fairness on the steps of `mainLoop` that need
nothing from outside (`ClearClosed`, `at_channel_init`, `MainSetRadioState`,
`waitForClose`) and on `onATReaderClosed` of each reader: both are threads
of a running process that the scheduler runs.  There is none on `open`
(it may fail for ever), on the failure of `select`, on the commands or on
a spurious wake-up.

Bounds: `COMMAND_CHANNEL_NUMBER = 2` (the build has 8; the properties relate
channel 0, which the handler closes, and any other), `MaxFiles = 5`
descriptors so that `open` can fail for want of one, `MaxRounds = 3` turns
of the loop and readers, `CommandsPerCallback = 1`.

### 11.4 What fails

| Configuration | Property | What the trace shows |
|---|---|---|
| `Lifecycle_sleeper.cfg` (run `lifecycle_sleeper`) | `SleeperKeepsItsResponse` | a command between `writeline`'s test and its write while the channels are reopened: `at_channel_open` clears `sp_response` (atchannel.c:795), the command sleeps and its final line is taken for an unsolicited one |
| `Lifecycle_findings.cfg` | `OneDescriptorPerChannel` | only channel 0 is closed; every reopening overwrites the `ttyFd` of the others |
| `Lifecycle_findings.cfg` | `RadioStateFollowsChannel` | `mainLoop` sees `s_closed` before the old reader's `setRadioState`, sets RADIO_STATE_OFF, and the late call sets UNAVAILABLE over open channels |

Each is reproduced with `tlc -config <cfg> MCLifecycle`, the two of
`Lifecycle_findings.cfg` together with `-continue`.  The inverted test
of `at_channel_open` (atchannel.c:799, -1 on success) changes nothing in
the model: no caller looks at the value.

## 12. `CloudAuth` (CA.c, utils.c, cloudstorage.c, backup_service.c, recovery.c 517-571)

The client side of the key service and of the cloud storage, and its three
callers: `backup_action` in the loop of `backup_service`'s `main`, the
authentication at the head of `enter_remote_update`, and `test` of
cloudstorage.c.  The servers, the `cpk` tool and the file system are the
environment: a reply of the key service is `NoMatch` or the groups the
regular expression of the parser captured, a transfer is what curl returned,
the status the server sent and the sizes of the parts in which the body of
its response arrived.

### 12.1 State

`caller` and `pc` say which program is at which label; `uid`, `randoms`,
`ret`, `size`, `signature` are the buffers of the caller as the C strings
they hold (`randoms` of backup_service is static and lives through the
passes); `streams` counts the `FILE`s held; `curl_http_response_code` is
the global of cloudstorage.c.  History variables record what the properties
speak of: `given` and `signed` (the random number given and the text
signed), `verdict` (what was sent to the key service and what it answered),
`outside` (indexes written outside an array, each with the array's name),
`cloud` (the last transfer: the `uid:token` of its Authorization header as
`snprintf` left it, and its outcome as the server and as the caller saw
it).

### 12.2 Operators and actions

| Definition | Code |
|---|---|
| `URLEncode`, `Encoding` | utils.c 18-49: the loop, with the guard `j + 3 < resultSize`, the return of 0 at an escape that does not fit, and the terminator at `result[j]` |
| `PercentEncoded` | the reference the property compares with: the concatenation of the encodings of the characters |
| `checkForRegister`, `applyForRandom`, `cpkAuthentication` | the parsers of CA.c, each with the return codes the code gives to `retCode` and `verifyResult` |
| `strncpy` | the copy without terminator with which `applyForRandom` fills `randoms` |
| `getFileInBuffer`, `Ask`, `Lengths` | CA.c 52-92: one request to the key service; the `memcpy` of the reply into the caller's `buf[1024]` and the terminator behind it (84-85), for a reply of `BUF - 1` bytes, which fits, and one of `BUF`, whose terminator is written at `buf[BUF]` |
| `is_priKey_exist` | CA.c 302-342: 1 and the uid of the key file found, or 0; what `opendir` returned goes to `readdir` without a test (321-322), and `Start` ends at `readdir(NULL)` when the directory was not opened.  `regcomp` (309-312) is taken to succeed |
| `Start`, `AfterStart`, `check_register`, `GET_PRI`, `apply_random` | `backup_action` 37-56 and `enter_remote_update` 517-552; `AfterStart` is the label the caller goes to with the answer of `is_priKey_exist` |
| `Sign_backup`, `Sign_recovery` | `cpk -sign`, `fopen`, `fread`, `URLEncode`, `signature[size - 3] = 0`; the two callers differ in the test of the stream, in `fclose` and in what follows an empty file |
| `cpk_authentication`, `authenticate_backup`, `authenticate_recovery` | the request, and what each caller does with its value: `backup_action` goes to `UPLOAD` or `APPLY` (69-75), `enter_remote_update` to `update_preference` or back to the menu (568-571) |
| `putFile`, `getFile`, `rest`, `write_data`, `Returned` | cloudstorage.c: the early returns before the request, the request, the response code, the file `getFile` truncates on opening |
| `writeMemoryCallback`, `Received`, `Exits`, `After` | cloudstorage.c 186-201: `putFile` and `rest` collect the body in the 4096 bytes of `curl_memory_chunk`, counted from 0 for each request; a part that does not fit with its terminator ends the process with `exit(EXIT_FAILURE)`, inside `curl_easy_perform` |
| `Authorization` | the `snprintf` of the header into `auth[256]` (lines 98, 120, 145): `uid`, a colon and the token, cut to the `AuthRoom` characters the array has left behind `Authorization:CPK ` |
| `uploadLocalFile`, `downloadCloudFile`, `deleteCloudFile` | the transfers, with the header they send and the result they return |
| `UPLOAD`, `update_preference`, `test` | their callers, each with the uid and the token it passes: the label of `backup_action` with `signature` (82-88), the wallpaper of `enter_remote_update` with `signature` (recovery.c 500-511), the three transfers of `test` (42-74) |
| `Ended` | a stuttering step where the program has ended |

### 12.3 Properties of run `programs`

* `TransfersWhatWasAuthenticated`, an action property: a transfer is made
  only with a verdict of CA_TRUE from this pass, and the header it sends
  carries the uid and, as far as `auth` holds it, the token that belongs to
  the text the key service verified: that text itself in
  `enter_remote_update`, its percent encoding less three characters in
  `backup_action`, which authenticates `ret` and uploads `signature`.  It
  covers the passes of `backup_service` that find the random number of an
  earlier pass and jump to `SIGNATURE`, and readings of `ret` that are
  shorter than the one before.  The premise `outside = {}` leaves out the
  passes in which a write has gone beyond an array, after which C says
  nothing of the contents.
* `EncodesWhatFits`: for every signature of the model, every length and
  every buffer size, when the encoding fits with its terminator `URLEncode`
  returns its length and has written it and nothing else; and in
  `enter_remote_update` `size` and `signature` are that encoding.

### 12.4 What fails

`tlc -continue -config CloudAuth_findings.cfg MCCloudAuth` reports the
eleven, each with its trace:

| Property | What the trace shows |
|---|---|
| `TerminatorInsideSignature` | `signature[size - 3]` with a size of 0, 1 or 2; `result[resultSize]` and `ret[sizeof ret]` at a full buffer |
| `ReplyInsideBuf` | a reply of 1024 bytes: `getFileInBuffer` writes its terminator at `buf[1024]` |
| `KeyDirectoryIsOpened` | `opendir` returns NULL and `readdir` is given it |
| `HeaderCarriesTheToken` | uid, colon and signature are longer than `auth` has room for: the service is sent a prefix of the signature |
| `SignsTheRandomGiven` | a shorter random number keeps the tail of the earlier one in the static `randoms` |
| `AuthenticatedMeansVerified` | `cpkAuthentication` returns CA_FALSE for "success" and CA_TRUE otherwise |
| `SendsTheEncodedSignature` | `backup_action` sends `ret`, the raw signature |
| `SuccessMeansStored` | `-1` needs a failed curl AND a code other than 200; the code is stale after an early return |
| `WallpaperKeptOrDownloaded` | `getFile` opens the target with "wb" before the request: a failed download leaves it empty or cut |
| `StreamIsOpened` | `fread` and `fclose` of a NULL stream; the streams `backup_action` never closes run out |
| `UpdateOfferedAfterAuthentication` | the update menu follows a refused authentication as well |

Bounds: `SIGNATURE = 8` for the 256 of the arrays (the signatures of
`MCRaws` have an encoding shorter than, as long as and longer than the
array, and one of fewer than three characters), `AuthRoom = 6` for the 237
characters `auth` has left (a uid with its colon and a short token fit, a
long token does not), `BUF = 1024` as in the code (only the two lengths at
the boundary are told apart), `MaxStreams = 2` streams,
`MaxRequests = 4` requests to the key service (two passes of
`backup_action`), three random numbers of lengths 2, 1 and 0, statuses 0,
200 and 401, `MAX_HTTP_RESPONSE_SIZE = 4` for 4096 with the bodies of
`MCBodies`: none, one part of 3 bytes that just fits with its terminator,
and two parts of 2 bytes of which the second does not.

## 13. `RadioState` and `RadioReport` (marvell-ril.c 194-306, ril-sim.c, ril-dev.c, ril-mm.c)

The radio state is one global, `sState`, that three threads set: the reader
thread (`onATReaderClosed`, `onUnsolicited_sim`, `onUnsolicited_mm`), the
event loop of the RIL library (`onRequest`, `requestRadioPower`,
`resetRadio`, the timed callbacks `initializeCallback`, `onSimInitReady`,
`reportLatestRadioState`, and `onCurrentState` for a new connection) and
`mainLoop`.  Only the assignment in `setRadioState` holds `s_state_mutex`.
The report to the telephony application comes after the unlock, and what it
carries is decided by `onCurrentState`, which the library calls on the
reporting thread and which reads `sState`, `sFirstGet` and
`s_newrilconnection` without a lock.

### 13.1 State

| Variable | Code |
|---|---|
| `sState`, `s_closed`, `sFirstGet`, `s_newrilconnection`, `AfterCPReset` | the globals of `marvell-ril.c` 10-18 and `ril-mm.c` 14 |
| `pc[t]`, `ret[t]` | where thread `t` is, and where it goes on when `setRadioState` or the report returns |
| `oldState[t]`, `newState[t]` | the local and the argument of `setRadioState` |
| `line` | the indication the reader thread is handling |
| `reading` | a reader thread of the open channels exists |
| `timed` | the callbacks requested with `RIL_requestTimedCallback` and not yet run |
| `connected`, `reported` | the application is connected; the state it received last (`"none"` before the first) |
| `left` | the events the modem and the application may still cause (`MaxEvents`) |

### 13.2 Actions

`setRadioState` is five steps: the locked region (`setRadioState`), the test
of `sFirstGet` (`NotConnectedYet`), the comparison with `oldState`
(`StateChanged`), `s_newrilconnection = 0` (`ClearFlag`) and, after the
library's call of `onCurrentState`, `s_newrilconnection = 1`
(`RestoreFlag`).  `onCurrentState` is four: `TestNewConnection`,
`TestFirstGet`, `ClearFirstGet`, `RequestLatest`; `Answer` is its return,
which the library passes to the application if one is connected.  Each read
or write of a shared variable outside the mutex is one step, so that every
interleaving the three threads can produce is a behaviour.

The callers are one action each, up to their call of `setRadioState` or
their command: `onUnsolicited` with the table of
`judgeServiceOnUnsolicited`, `onUnsolicited_sim`, `onUnsolicited_mm`,
`onATReaderClosed`, `mainLoop`, `RequestInit`, `waitForClose`,
`onNewCommandConnect`, `reportLatestRadioState`, `onSimInitReady`,
`initializeCallback`, `updateRadioState`, `onRequest` with `Gate` (the tests
at the head of `onRequest`, in their order), `requestRadioPower`, `PowerOff`
(the answer to `AT+CFUN=4` in `requestRadioPower` and `resetRadio`).
`onATTimeout` (618-627) is no action: `mainLoop` hands it to
`at_set_on_timeout` and atchannel.c never calls `s_onTimeout`.  The
environment chooses the indications, the requests, the
answers of the modem (`AT+CFUN?`, `AT+CPIN?`), connections and
disconnections of the application, and channels that close.

Assumptions: the library delivers answers to the application in the order
in which `onCurrentState` returned them; the three tests of `sState` at the
head of `onRequest` see one value; `sSimStatus` and the SMS and call control
commands of the callbacks are left out, as they do not touch the radio
state; the reader thread that `mainLoop` starts does not overlap the tail of
the one that closed.

### 13.3 `RadioReport` and the refinement

`RadioReport` is what the application may rely on, in four variables:
`radio`, `told`, `connected` and `owed` (some thread is at work for the
radio).  The radio changes only while work is owed (`Change`); the
application is told the state as it is at that moment or `Off`, and nothing
else (`Tell`); work ends only when the copy of a connected application is
current (`Settle`, and the last clause of `Tell`); a connection starts with
no copy and owes a report (`Connect`).

`RadioState` implements it under

    radio <- sState,  told <- reported,  owed <- ~Quiescent

where `Quiescent` says that the reader is in `select`, the event loop has no
callback due and `mainLoop` is in `waitForClose`.

### 13.4 Run `radio`

`RadioState.cfg`, module `RadioState`, `MaxEvents = 3`: 3.06 million states.

* `UpperLayerLearnsTheState`: when the threads are at rest, a connected
  application holds `sState`.  It needs `onCurrentState`'s request of
  `reportLatestRadioState` after the first answer, the report after every
  change, and the repair of each by the other when two reports overlap.
  Mutant: `onCurrentState` without the timed callback.
* `ImplementsRadioReport`: the refinement of 13.3.  Mutant:
  `onCurrentState` answering the state `setRadioState` replaced.

Three events are enough for a connection, a change by the reader and a
change by the event loop to meet, and for a reset followed by a request or
a closed channel.  The run has no fairness: both properties are safety, and
`Waiting` is the stuttering step of the threads at rest.

### 13.5 What fails

| Configuration | Property | What the trace shows |
|---|---|---|
| `RadioState_greeting.cfg` (`MaxEvents = 4`) | `NewConnectionIsToldOff` | the application reconnects while another thread is between `s_newrilconnection = 0` and `= 1`: `onCurrentState` takes the connection for a report and answers `sState`, not the `RADIO_STATE_OFF` its comment requires |
| `RadioState_reset.cfg` | `ResetRadioStaysOff` | `+CSQ: 99,99` arrives while `initializeCallback` or `onSimInitReady` is between its read and its `setRadioState`: the radio of a resetting modem is reported with a SIM state |

Each with `tlc -config <cfg> RadioState`.

## 14. `Graphics` (minui/graphics.c)

The display of the recovery tool: a surface in memory that everything is
drawn into, a frame buffer of two pages, and `gr_flip`, which copies the
surface into the page that is not shown and asks the driver to show it.
The client (`ui.c`, not in the tree) is any program that calls `gr_init`,
draws and flips while `gr_init` has returned 0, calls `gr_exit`, and may
start again.  The console, the driver and `malloc` are the environment:
the parameters of `gr_init` and `gr_flip` say which of their calls succeed.

| Variable | Code |
|---|---|
| `gr_fb_fd`, `gr_vt_fd`, `gr_active_fb`, `g_gr_auto_text_color` | the statics of the same names |
| `data` | `gr_mem_surface.data`: `NULL`, live, or freed and still held |
| `mem`, `fb[0..1]` | the picture in the surface and in the two pages (a number) |
| `panel` | the page the driver shows (`vi.yoffset`) |
| `kd` | the mode of the console |
| `color` | the colour of the GL context |
| `up`, `fault` | `gr_init` has returned 0; what ended the program |

`gr_text` is modelled to the character: `gr_special_text_color` is the
table `Words` in the order of its `strncmp` tests followed by the count of
leading digits, and `gr_text_loop` folds the loop of `gr_text` over the text
with `color_text_len` and `color_text_ind`, giving for every character its
colour and whether it was judged.  What the GL library draws is left out.

Properties (run `programs`; `Alphabet` of seven characters, texts up to
`MaxText = 3`, which hold `OK`, `Not`, `5x`, `55N` and the like):

* `FlipWritesTheBackBuffer` (action property): while the driver shows the
  active page no step writes the page shown.  Mutant: `gr_flip` copying
  before it changes `gr_active_fb`.
* `MatchIsColouredWhole`: from a character `gr_text` judged, as many
  characters as the judgement returned have its colour.  It is a property
  of an operator and is evaluated in the states in which the display was
  never used (`Unused`).  Mutant: the re-judge test one character early.

What fails (`tlc -continue -config Graphics_findings.cfg Graphics` reports
the three):

| Property | What the trace shows |
|---|---|
| `JudgesAfterEveryMatch` | after a match of one character, a single digit, the next character resets the counters and is not judged: the `N` of `5Not` is green |
| `ShownPageIsNeverWritten` | `set_active_framebuffer` only logs a refused swap; the next `gr_flip` copies into the page on the panel |
| `FreesTheSurfaceOnce` | `gr_exit` leaves the freed pointer, and a `gr_init` that fails calls `gr_exit` before it has allocated: `gr_init`, `gr_exit`, failing `gr_init` frees twice |

An observation no property needs: `"Error"` is tested after `"Err"`, so
its five characters are never coloured as one word.

## 15. `SendPdu` (sendPDU.c)

`main` checks `argc`, connects to the debug socket of rild and sends five
frames: the number of arguments, the length and the text of `"11"`, the
length and the text of the PDU that `args_to_buf` puts together from
`argv[1..8]` with `snprintf(buf, 1024, ...)`.  `args_to_buf` is modelled by
what `snprintf` does: the buffer holds the first `BufSize - 1` characters
and a terminator, the value returned is the length of the whole text.
`send(taken)` is one `send` of which the socket takes all, some or nothing;
a frame that is not taken whole ends the program with `exit(-1)`.  A byte
read beyond `buf` is `"?"`.

* `SendsThePdu` (run `programs`): a program that returned 0 with a PDU that
  fits has sent exactly the five frames.  Mutant: the length of the first
  text announced for the second.
* `SendsFromBuf` (`tlc -config SendPdu_buf.cfg MCSendPdu`, violated): the
  bytes sent are bytes of `buf`.  A text of `BufSize` characters is sent
  with the terminator in place of its last character; with a longer one
  the announced length is larger than the array.

`BufSize = 12` stands for 1024; the command lines of `MCPduArgvs` give texts
of 8, 11, 12 and 14 characters, that is below, at and beyond the boundary,
and two command lines with the wrong number of arguments.

## 16. `Menu` and `UpdateScripts` (recovery.c 364-408, 592-632, utils.c 82-119)

### 16.1 `Menu`: `get_menu_selection` as an operator

`get_menu_selection` is a loop over the keys of the user, and `Menu` is that
loop as a fold over a run of the actions `device_handle_key` makes of them:
the highlight starts on item 0, `HIGHLIGHT_UP` and `HIGHLIGHT_DOWN` move it
through `ui_menu_select`, `SELECT_ITEM` chooses the item under it,
`MENU_BACK` leaves at once, and an action that is not negative is an item by
itself unless the menu is `menu_only`.  `Selections(runs, n, menu_only)` is
what a user can come to choose from a menu of `n` items.  The four action
values and `ui_menu_select` are defined in `recovery_ui.h` and `ui.c`, which
are not part of the tree: they are written from what the loop asks of them.

The runs of `MCKeyRuns`: select at once, one down, one up from the top,
three and seven down (the confirming items of `wipe_data` and the install
and delete of `yh_sdcard_update`), twelve down (past the end of every menu),
back, a key that stands for item 1 and one for item 2, and a run that has
not chosen yet.

### 16.2 `UpdateScripts`: state and actions

| Variable | Code |
|---|---|
| `name`, `scripts` | the two static tables of utils.c 82-83, a row a sequence of characters; `TABLE` rows |
| `num`, `chosen_item`, `menu_items` | what `find_sdcard_update_script` and `get_menu_selection` returned, and the items `ui_start_menu` counted |
| `pc`, `visits` | where `enter_remote_update` is, and how often it was entered in this process |
| `ran`, `outside`, `listing` | history: what the children were given to run, whether a table was read or written outside its rows, the directory as the last call read it |

| Action | Code |
|---|---|
| `enter_remote_update` | line 592, after an authentication that did not end the function |
| `find_sdcard_update_script(opened, entries)` | utils.c 85-119: `opendir` and `readdir` without a test between them, `regexec` with the pattern `(.*).sh` (`Shs`, `regexec`, `pm1`), the two `strncpy` that write no terminator (`strncpy`), `result++` without a bound |
| `menu(run, readable)` | lines 594-602: the menu of the scripts, given `name` (rows of characters) for an array of pointers, or the menu of the two versions; `Pointers` counts what `ui_start_menu` finds in the first row |
| `fork(forked)` | lines 603-629: the child runs `scripts[chosen_item]`, or one of the two scripts of `tnosupdate`, or nothing; the parent waits |
| `Ended` | the tool has crashed, or the user leaves the update alone |

A file name is a sequence of characters, because the property is about what
the pattern captures; the directory and the two system scripts are one
character each.  `strncpy(dest, src)` keeps what `dest` held behind the
characters copied, which is how a row holds the end of an earlier, longer
name.

### 16.3 Properties

* `FirstListingFillsTheTables` (run `programs`): after the first call of
  `find_sdcard_update_script` in a process, with no more scripts than rows,
  `num` counts the entries that have a stem in front of a character and
  `sh`, and row `i` of `scripts` and `name` holds the path and the longest
  stem of the `i`-th of them, in the order of the directory.  The reference
  (`Stems`, `Longest`) is written from the pattern, not from the offsets the
  code computes: a capture that kept the dot, or the shortest stem, fails
  it.

`tlc -continue -config UpdateScripts_findings.cfg MCUpdateScripts` reports
what fails:

| Property | What the trace shows |
|---|---|
| `RunsAScriptOfTheDirectory` | in a second visit a row keeps the end of a longer path of the first, and the row of an item behind the scripts found is run as well |
| `MenuHasAnItemForEachScript` | the menu counts the pointers the characters of `name[0]` spell, not the scripts |
| `StaysInTheTables` | `result` is never compared with the rows; `MENU_BACK` and a key's number index `scripts` |
| `DirectoryIsOpened` | `readdir` is given the NULL of an `opendir` that failed |

Bounds: `TABLE = 2` rows for 256, so that a directory of three scripts
exceeds them and one of two fills them; `POINTER = 4`; `MaxVisits = 2`
visits, the second of which finds the tables as the first left them; the
six directories of `MCListings` (no script; one; a script and a file that
is none; `push`, which has `sh` and no stem in front of the dot's place, a
script and a backup copy `c.sh~`; a script named `.sh` and a long one; the
long one alone).

## 17. `Programs` and the runs

The nine programs share no state, so their composition is a sum: `Programs`
has a variable `program` that says whose behaviour this is, instances of the
nine modules, and a `Next` in which every disjunct is one action of one
program with the others unchanged.  One run checks all of them; `Recovery`
contains the socket.  `ModelValues` holds every input as a definition.

| Run | Module, configuration | Result |
|---|---|---|
| `at_safety`, `at_liveness`, `at_use_after_release` | `MCAtChannel` | section 3.3 |
| `disp_safety`, `disp_failures` | `MCDispatcher` | section 4.3 |
| `framer`, `framer_stale`, `framer_blocked` | `MCLineFramer` | section 5.3 |
| `lifecycle`, `lifecycle_sleeper` | `MCLifecycle` | section 11 |
| `radio` | `RadioState`, `RadioState.cfg` | pass: section 13.4, 3.06 million states |
| `programs` | `MCPrograms`, `Programs.cfg` | pass: the fifteen invariants and the three action properties of sections 6 to 10, 12 and 14 to 16, 206 thousand states |

Configurations kept beside the runs, each showing one more violation, or
with `tlc -continue` several: `AtChannel_late.cfg`, `AtChannel_wakeup.cfg`,
`Dispatcher_findings.cfg`, `RilReader_reopen.cfg`, `WifiConnect_findings.cfg`,
`RecoverySocket_split.cfg`, `RecoverySocket_recv.cfg`,
`Programs_overrun.cfg`, `Lifecycle_findings.cfg`,
`RadioState_greeting.cfg`, `RadioState_reset.cfg`,
`CloudAuth_findings.cfg` (section 12.4), `Graphics_findings.cfg` (section
14), `SendPdu_buf.cfg` (section 15) and `UpdateScripts_findings.cfg`
(section 16.3).

Bounds of `programs`: `MaxSentences = 2` sentences out of thirteen (a GSV
cycle has two), `MaxLoads = 2` library handles, `GPS_MAX_SVS = 5` for 32,
`NMEA_MAX_SIZE = 83` and `MAX_NMEA_TOKENS = 32` as in the code,
`MaxOpens = 3`, `MaxEvents = 3`, `BUFFER = 12`, `SockClients = 3`, those of
sections 12.4 and 16.3, `MaxText = 3` over seven characters and
`BufSize = 12`.  The
run has no fairness: all its properties are invariants or action
properties.  Deadlock is checked; each program has a stuttering step for
the states in which it has really ended (`Crashed`, `Stopped`, `Idle`,
`SockIdle`, `Ended`) or the device keeps cycling (`Recovery`).

## 18. Not modelled

* libril itself (event loop, sockets, parcel marshalling) is not in the tree;
  its single command thread is an assumption taken from `ril.h`.
* `at_tok.c` and `misc.c` are not in the tree; `strStartsWith` is modelled
  from its use.
* `dataapi.c` and the binder proxy are I/O against the kernel and binder,
  with no protocol state of their own; `test_cpk.c` is a sequence of calls
  into the CPK library, which is not in the tree.
* Of `minui/graphics.c`: what the GL library draws, `gr_init_font` (it
  unpacks the run-length data of the font into a texture), `gr_measure` and
  the getters of width and height, which are arithmetic on constants of the
  font and the panel.
* Of `CA.c` and `utils.c`: `applyForPriKey`, `apply_cpk_pri`, `Char2Num`
  and `is_internet_connected` have no caller in the tree; `save_priKey`
  writes a file nobody's control flow reads back (its result is ignored);
  the HTTP request itself (`Ask`) is its reply.
* Of `cloudstorage.c`: `initCurl` and `cleanupCurl`.  Every caller ignores
  the result of `initCurl`, and what a request does with the NULL handle of
  one that failed (an error code, or a crash in `curl_easy_reset`) is
  decided inside libcurl, which is not in the tree; the model starts from a
  handle that is there.  `getFileNameFromPath` has no caller.
* Of `recovery.c`: `prepend_title`, `yh_recovery_promote`,
  `print_property` and `yh_sdcard_update_build_titles` build texts for the
  screen; the copy of the log in `finish_recovery` changes nothing the tool
  reads; `is_connect_retry_needed` has no caller.  What the installer and
  the scripts do to the system is their result (`Results`).
* `dump_command` of `socket_server.c` and `doStringCommand` of
  `wificonnect.c` have no caller; `scan_stage` of `wificonnect.c` returns 0
  and does nothing else.
* Of `gps_marvell_sirf.c`: the code under `#if 0` and under
  `TIMER_THREAD`, which the file undefines; of the functions that pass a
  call on to the library, the arguments.
* The headers of the CPK library (`cpk.h` and the others beside it)
  declare functions whose code is not in the tree.
* Memory that runs out: `at_response_new` (atchannel.c 974-978, and the
  call of line 907 that is not tested), `regcomp` in `is_priKey_exist`
  (CA.c 309-312) and every `malloc` are taken to succeed.
* The build with `BROWNSTONE_CP`: the modules follow the `DKB_CP` numbering
  of atchannel.h, so lines 277-281 of `onCurrentState` are not compiled.
* libril's delivery: a state that `onCurrentState` returns or
  `RIL_onUnsolicitedResponse` is given reaches the application in the order
  of the calls, and the read of `sState` in `TestFirstGet` and the answer
  that carries it are the steps of one thread.
* Of the chains of commands: a chain is two commands.  The third command of
  `callback_SetupDefaultPDP` (ril-ps.c 465-495) takes the path of the
  second once more: the session is rewritten and `continueProcessRequest`
  scheduled.
* Of the channel lifecycle: `at_channel_open` initialises a mutex and a
  condition variable that may be in use, which POSIX leaves undefined and
  the model does not follow further than the cleared response; the
  sessions queued on a channel when it closes.
* Of the router and the services: `judgeServiceOnRequest` and the request
  tables of `ril-*.c` are tables from a request to a command string, the
  callbacks parse an answer into the reply of the request.  The
  registration cache of `ril-mm.c` (written by the reader thread and by
  `resetLocalRegInfo`, read by `onRequest_mm` without a lock) and the PDP
  table of `ril-ps.c` are not modelled.  `Dispatcher` keeps of them what
  changes the control flow (the command asked for, a callback that ends the
  request or chains a second command), `RadioState` what reaches the radio
  state.  `notifyRegisteredToSim` has no caller in the tree.
