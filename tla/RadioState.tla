----------------------------- MODULE RadioState -----------------------------
(***************************************************************************)
(* The radio state of the Marvell RIL and everything that reads or writes  *)
(* it: setRadioState with the report it sends after the unlock,            *)
(* onCurrentState and its two flags, reportLatestRadioState, the gates of  *)
(* onRequest and onUnsolicited, and the services that set the state        *)
(* (marvell-ril.c, ril-sim.c, ril-dev.c, ril-mm.c).                        *)
(*                                                                         *)
(* Three threads run this code: the reader of the channels (indications,   *)
(* onATReaderClosed), the event loop of the RIL library (requests, timed   *)
(* callbacks, a new connection of the telephony application) and mainLoop. *)
(* Only the body of setRadioState up to the unlock holds s_state_mutex;    *)
(* every other read and write of the globals is a step of its own here.    *)
(* The library calls onCurrentState inside RIL_onUnsolicitedResponse and   *)
(* passes on what it returns; answers reach the application in the order   *)
(* in which onCurrentState returned them.                                  *)
(*                                                                         *)
(* This is the DKB_CP build: the lines of onCurrentState under             *)
(* BROWNSTONE_CP are not compiled.  onATTimeout is handed to               *)
(* at_set_on_timeout and atchannel.c never calls it: it is no action here. *)
(***************************************************************************)
EXTENDS Naturals

\* What the modem and the telephony application may do between them:
\* indications, requests, connections, and channels that close.
CONSTANT MaxEvents

Threads == {"reader", "loop", "main"}

RadioStates ==
    {"UNAVAILABLE", "OFF", "SIM_NOT_READY", "SIM_LOCKED_OR_ABSENT", "SIM_READY"}

\* SIM_PIN stands for SIM_PUK and SIM_NETWORK_PERSONALIZATION as well: the
\* code treats the three alike.
SimStatuses == {"SIM_ABSENT", "SIM_NOT_READY", "SIM_READY", "SIM_PIN"}

Callbacks == {"reportLatestRadioState", "onSimInitReady", "initializeCallback"}

\* The indications that move the radio state, and one of every other service.
Indications ==
    [prefix : {"+CPIN:"}, status : SimStatuses]
        \cup [prefix : {"+CSQ:"}, reset : BOOLEAN]
        \cup [prefix : {"+MSRI:", "+MPBK:", "+CRING:", "+CGEV:", "+CMT:", "+CSSI:", "?"}]

NoLine == [prefix |-> "?"]

Requests ==
    [request : {"RADIO_POWER"}, onOff : {0, 1}]
        \cup [request : {"RESET_RADIO", "GET_SIM_STATUS", "SCREEN_STATE",
                         "REPORT_STK_SERVICE_IS_RUNNING", "DIAL"}]

VARIABLES
    sState, s_closed, sFirstGet, s_newrilconnection, AfterCPReset,
    pc,          \* where each thread is
    oldState,    \* setRadioState's local of each thread
    newState,    \* setRadioState's argument
    ret,         \* where the thread goes on when setRadioState returns
    line,        \* the indication the reader is handling
    reading,     \* the reader thread of the open channels is running
    timed,       \* callbacks requested with RIL_requestTimedCallback
    connected,   \* the telephony application is connected
    reported,    \* the radio state the application last received
    left         \* what the environment may still do

shared == <<sState, s_closed, sFirstGet, s_newrilconnection, AfterCPReset>>
locals == <<oldState, newState, ret>>
world  == <<connected, reported>>
env    == <<line, reading, timed, world, left>>
vars   == <<shared, pc, locals, env>>

Init ==
    /\ sState = "UNAVAILABLE"
    /\ s_closed = 0
    /\ sFirstGet = 1
    /\ s_newrilconnection = 1
    /\ AfterCPReset = 0
    /\ pc = [t \in Threads |-> IF t = "main" THEN "mainLoop" ELSE "idle"]
    /\ oldState = [t \in Threads |-> "UNAVAILABLE"]
    /\ newState = [t \in Threads |-> "UNAVAILABLE"]
    /\ ret = [t \in Threads |-> "idle"]
    /\ line = NoLine
    /\ reading = FALSE
    /\ timed = {}
    /\ connected = FALSE
    /\ reported = "none"
    /\ left = MaxEvents

At(t, where) == pc[t] = where
Goto(t, where) == pc' = [pc EXCEPT ![t] = where]
Event == left > 0 /\ left' = left - 1

\* A call of setRadioState(s) by thread t, which goes on at `after`.
Call_setRadioState(t, s, after) ==
    /\ Goto(t, "setRadioState")
    /\ newState' = [newState EXCEPT ![t] = s]
    /\ ret' = [ret EXCEPT ![t] = after]

\* The thread leaves setRadioState, or the report of reportLatestRadioState;
\* its locals are dead and are forgotten.
Return(t) ==
    /\ Goto(t, ret[t])
    /\ ret' = [ret EXCEPT ![t] = "idle"]
    /\ oldState' = [oldState EXCEPT ![t] = "UNAVAILABLE"]
    /\ UNCHANGED newState

-----------------------------------------------------------------------------
(* setRadioState *)

\* The part under s_state_mutex.  The broadcast wakes waitForClose, which
\* tests s_closed itself.
setRadioState(t) ==
    /\ At(t, "setRadioState")
    /\ oldState' = [oldState EXCEPT ![t] = sState]
    /\ sState' = IF s_closed > 0 THEN "UNAVAILABLE" ELSE newState[t]
    /\ newState' = [newState EXCEPT ![t] = "UNAVAILABLE"]
    /\ Goto(t, "connected?")
    /\ UNCHANGED <<s_closed, sFirstGet, s_newrilconnection, AfterCPReset, ret, env>>

\* if (!sFirstGet)
NotConnectedYet(t) ==
    /\ At(t, "connected?")
    /\ \/ sFirstGet = 0 /\ Goto(t, "changed?") /\ UNCHANGED locals
       \/ sFirstGet = 1 /\ Return(t)
    /\ UNCHANGED <<shared, env>>

\* if (sState != oldState)
StateChanged(t) ==
    /\ At(t, "changed?")
    /\ \/ sState # oldState[t] /\ Goto(t, "report") /\ UNCHANGED locals
       \/ sState = oldState[t] /\ Return(t)
    /\ UNCHANGED <<shared, env>>

\* s_newrilconnection = 0 before RIL_onUnsolicitedResponse, in setRadioState
\* and in reportLatestRadioState.
ClearFlag(t) ==
    /\ At(t, "report")
    /\ s_newrilconnection' = 0
    /\ Goto(t, "onCurrentState")
    /\ UNCHANGED <<sState, s_closed, sFirstGet, AfterCPReset, locals, env>>

\* s_newrilconnection = 1 after it.
RestoreFlag(t) ==
    /\ At(t, "restore")
    /\ s_newrilconnection' = 1
    /\ Return(t)
    /\ UNCHANGED <<sState, s_closed, sFirstGet, AfterCPReset, env>>

-----------------------------------------------------------------------------
(* onCurrentState, called by the library on the thread that reports *)

\* The library hands the answer to the application, if one is connected.
\* The call made for a new connection returns to the event loop, every
\* other call to the statement that restores the flag.
Answer(t, s) ==
    /\ reported' = IF connected THEN s ELSE reported
    /\ \/ ret[t] = "connect" /\ Goto(t, "idle")
                            /\ ret' = [ret EXCEPT ![t] = "idle"]
       \/ ret[t] # "connect" /\ Goto(t, "restore") /\ UNCHANGED ret
    /\ UNCHANGED <<connected, oldState, newState>>

\* if(s_newrilconnection) sFirstGet = 1;
TestNewConnection(t) ==
    /\ At(t, "onCurrentState")
    /\ sFirstGet' = IF s_newrilconnection = 1 THEN 1 ELSE sFirstGet
    /\ Goto(t, "first?")
    /\ UNCHANGED <<sState, s_closed, s_newrilconnection, AfterCPReset, locals, env>>

\* onCurrentState's test of sFirstGet (mutant): the answer is the state
\* setRadioState saw before it changed it.
TestFirstGet_stale(t) ==
    /\ At(t, "first?")
    /\ \/ sFirstGet = 1 /\ Goto(t, "first") /\ UNCHANGED <<locals, world>>
       \/ sFirstGet = 0 /\ Answer(t, oldState[t])
    /\ UNCHANGED <<shared, line, reading, timed, left>>

\* if (sFirstGet) state = RADIO_STATE_OFF; ... else state = sState;
TestFirstGet(t) ==
    /\ At(t, "first?")
    /\ \/ sFirstGet = 1 /\ Goto(t, "first") /\ UNCHANGED <<locals, world>>
       \/ sFirstGet = 0 /\ Answer(t, sState)
    /\ UNCHANGED <<shared, line, reading, timed, left>>

\* sFirstGet = 0;
ClearFirstGet(t) ==
    /\ At(t, "first")
    /\ sFirstGet' = 0
    /\ Goto(t, "latest?")
    /\ UNCHANGED <<sState, s_closed, s_newrilconnection, AfterCPReset, locals, env>>

\* onCurrentState's last statements (mutant): RADIO_STATE_OFF is returned
\* and no reportLatestRadioState is requested.
RequestLatest_without_callback(t) ==
    /\ At(t, "latest?")
    /\ Answer(t, "OFF")
    /\ UNCHANGED <<shared, line, reading, timed, left>>

\* if (sState != RADIO_STATE_OFF) RIL_requestTimedCallback(reportLatestRadioState);
\* return state, which is RADIO_STATE_OFF on this path.
RequestLatest(t) ==
    /\ At(t, "latest?")
    /\ timed' = IF sState # "OFF" THEN timed \cup {"reportLatestRadioState"}
                ELSE timed
    /\ Answer(t, "OFF")
    /\ UNCHANGED <<shared, line, reading, left>>

-----------------------------------------------------------------------------
(* The reader thread: indications and the end of the channel *)

\* The table of judgeServiceOnUnsolicited.  No prefix of the table begins
\* another one, so the first match is the only match.
judgeServiceOnUnsolicited(s) ==
    CASE s.prefix \in {"+CSQ:", "+MSRI:"}  -> "SERVICE_MM"
      [] s.prefix \in {"+CPIN:", "+MPBK:"} -> "SERVICE_SIM"
      [] s.prefix = "+CRING:"              -> "SERVICE_CC"
      [] s.prefix = "+CGEV:"               -> "SERVICE_PS"
      [] s.prefix = "+CMT:"                -> "SERVICE_MSG"
      [] s.prefix = "+CSSI:"               -> "SERVICE_SS"
      [] OTHER                             -> "SERVICE_NULL"

\* An indication is dropped while the radio is unavailable; the handlers of
\* the SIM and the network service go on, the others leave the state alone.
onUnsolicited(s) ==
    /\ At("reader", "idle") /\ reading
    /\ Event
    /\ LET service == judgeServiceOnUnsolicited(s)
           handled == sState # "UNAVAILABLE"
                         /\ service \in {"SERVICE_SIM", "SERVICE_MM"}
       IN  /\ Goto("reader", IF handled THEN service ELSE "idle")
           /\ line' = IF handled THEN s ELSE line
    /\ UNCHANGED <<shared, locals, reading, timed, world>>

RadioStateOfSim(status) ==
    CASE status = "SIM_READY"     -> "SIM_READY"
      [] status = "SIM_NOT_READY" -> "SIM_NOT_READY"
      [] OTHER                    -> "SIM_LOCKED_OR_ABSENT"

\* +CPIN: nothing while the radio is off, a timed onSimInitReady when the
\* SIM is ready, the state of the SIM otherwise.  +MPBK: onSimInitReady.
onUnsolicited_sim ==
    /\ At("reader", "SERVICE_SIM")
    /\ LET ready == line.prefix = "+MPBK:"
                       \/ (sState # "OFF" /\ line.status = "SIM_READY")
           sets  == line.prefix = "+CPIN:" /\ sState # "OFF"
                       /\ line.status # "SIM_READY"
       IN  /\ timed' = IF ready THEN timed \cup {"onSimInitReady"} ELSE timed
           /\ \/ sets /\ Call_setRadioState("reader", RadioStateOfSim(line.status), "idle")
              \/ ~sets /\ Goto("reader", "idle") /\ UNCHANGED <<newState, ret>>
    /\ line' = NoLine
    /\ UNCHANGED <<shared, oldState, reading, world, left>>

\* +CSQ: 99,99 is the modem resetting: AfterCPReset = 1 and the radio is off.
\* +MSRI: after a reset the modem is initialised again.
onUnsolicited_mm ==
    /\ At("reader", "SERVICE_MM")
    /\ LET reset == line.prefix = "+CSQ:" /\ line.reset
       IN  /\ AfterCPReset' = IF reset THEN 1 ELSE AfterCPReset
           /\ \/ reset /\ Call_setRadioState("reader", "OFF", "idle")
              \/ ~reset /\ Goto("reader", "idle") /\ UNCHANGED <<newState, ret>>
    /\ timed' = IF line.prefix = "+MSRI:" /\ AfterCPReset = 1
                THEN timed \cup {"initializeCallback"} ELSE timed
    /\ line' = NoLine
    /\ UNCHANGED <<sState, s_closed, sFirstGet, s_newrilconnection, oldState,
                   reading, world, left>>

\* The channels are closed: s_closed = 1, written without the mutex, and
\* the radio is unavailable.  The reader thread ends when this returns.
onATReaderClosed ==
    /\ At("reader", "idle") /\ reading
    /\ Event
    /\ s_closed' = 1
    /\ reading' = FALSE
    /\ Call_setRadioState("reader", "UNAVAILABLE", "idle")
    /\ UNCHANGED <<sState, sFirstGet, s_newrilconnection, AfterCPReset,
                   oldState, line, timed, world>>

-----------------------------------------------------------------------------
(* mainLoop *)

\* The channels are open: s_closed = 0, at_channel_init starts the reader,
\* and the radio is off until initializeCallback has asked the modem.
mainLoop ==
    /\ At("main", "mainLoop")
    /\ s_closed' = 0
    /\ reading' = TRUE
    /\ Call_setRadioState("main", "OFF", "requestInit")
    /\ UNCHANGED <<sState, sFirstGet, s_newrilconnection, AfterCPReset,
                   oldState, line, timed, world, left>>

RequestInit ==
    /\ At("main", "requestInit")
    /\ timed' = timed \cup {"initializeCallback"}
    /\ Goto("main", "waitForClose")
    /\ UNCHANGED <<shared, locals, line, reading, world, left>>

waitForClose ==
    /\ At("main", "waitForClose")
    /\ s_closed > 0
    /\ Goto("main", "mainLoop")
    /\ UNCHANGED <<shared, locals, env>>

-----------------------------------------------------------------------------
(* The event loop of the library: connections, timed callbacks, requests *)

\* The application connects: the library reports the radio state to it, and
\* s_newrilconnection is whatever the other threads have left in it.
onNewCommandConnect ==
    /\ At("loop", "idle") /\ ~connected
    /\ Event
    /\ connected' = TRUE
    /\ reported' = "none"
    /\ Goto("loop", "onCurrentState")
    /\ ret' = [ret EXCEPT !["loop"] = "connect"]
    /\ UNCHANGED <<shared, oldState, newState, line, reading, timed>>

\* The application crashes or closes the socket.
Disconnect ==
    /\ connected
    /\ Event
    /\ connected' = FALSE
    /\ UNCHANGED <<shared, pc, locals, line, reading, timed, reported>>

reportLatestRadioState ==
    /\ At("loop", "idle") /\ "reportLatestRadioState" \in timed
    /\ timed' = timed \ {"reportLatestRadioState"}
    /\ Goto("loop", IF sState # "OFF" THEN "report" ELSE "idle")
    /\ ret' = [ret EXCEPT !["loop"] = "idle"]
    /\ UNCHANGED <<shared, oldState, newState, line, reading, world, left>>

\* The state is read here and set in setRadioState, a step later.
onSimInitReady ==
    /\ At("loop", "idle") /\ "onSimInitReady" \in timed
    /\ timed' = timed \ {"onSimInitReady"}
    /\ \/ /\ sState \notin {"OFF", "UNAVAILABLE", "SIM_READY"}
          /\ Call_setRadioState("loop", "SIM_READY", "idle")
       \/ /\ sState \in {"OFF", "UNAVAILABLE", "SIM_READY"}
          /\ UNCHANGED <<pc, newState, ret>>
    /\ UNCHANGED <<shared, oldState, line, reading, world, left>>

\* if (AfterCPReset) { AT+CFUN=1; AfterCPReset = 0; } and the commands that
\* configure the modem; then if (isRadioOn() > 0) updateRadioState().
initializeCallback ==
    /\ At("loop", "idle") /\ "initializeCallback" \in timed
    /\ timed' = timed \ {"initializeCallback"}
    /\ AfterCPReset' = 0
    /\ Goto("loop", "isRadioOn")
    /\ UNCHANGED <<sState, s_closed, sFirstGet, s_newrilconnection, locals,
                   line, reading, world, left>>

\* The modem has answered AT+CFUN=1 or isRadioOn: when the radio is on,
\* updateRadioState asks for the SIM and the radio state follows the answer.
\* getSimStatus takes the SIM as not ready when its command failed.
updateRadioState ==
    /\ pc["loop"] \in {"CFUN=1", "isRadioOn", "getSimStatus"}
    /\ \/ /\ ~At("loop", "getSimStatus")
          /\ Goto("loop", "idle")
          /\ UNCHANGED <<newState, ret>>
       \/ \E status \in IF At("loop", "getSimStatus") THEN {"SIM_NOT_READY"}
                         ELSE SimStatuses :
              Call_setRadioState("loop", RadioStateOfSim(status), "idle")
    /\ UNCHANGED <<shared, oldState, env>>

PowerPc(onOff) == IF onOff = 0 THEN "requestRadioPower(0)" ELSE "requestRadioPower(1)"

\* What onRequest does with a request before any service sees it.
Gate(r) ==
    CASE AfterCPReset = 1 /\ r.request = "RADIO_POWER"          -> "reset"
      [] r.request \in {"SCREEN_STATE", "REPORT_STK_SERVICE_IS_RUNNING"}
                                                                -> "service"
      [] sState \in {"UNAVAILABLE", "OFF"} /\ r.request = "GET_SIM_STATUS"
                                                                -> "SUCCESS"
      [] sState = "OFF" /\ r.request = "RADIO_POWER"            -> "power"
      [] sState \in {"UNAVAILABLE", "OFF"}          -> "RADIO_NOT_AVAILABLE"
      [] r.request = "RADIO_POWER"                              -> "power"
      [] r.request = "RESET_RADIO"                              -> "CFUN=4"
      [] OTHER                                                  -> "service"

\* After a reset of the modem RADIO_POWER only moves the state; the other
\* requests are answered here, handed to their service, or go on in
\* requestRadioPower and resetRadio.
onRequest(r) ==
    /\ At("loop", "idle")
    /\ Event
    /\ LET gate == Gate(r)
           to   == IF r.onOff = 0 THEN "OFF" ELSE "UNAVAILABLE"
           sets == gate = "reset" /\ (sState = "OFF") = (r.onOff = 1)
       IN  \/ sets /\ Call_setRadioState("loop", to, "idle")
           \/ /\ ~sets
              /\ Goto("loop", CASE gate = "power" -> PowerPc(r.onOff)
                                [] gate = "CFUN=4" -> "CFUN=4"
                                [] OTHER -> "idle")
              /\ ret' = [ret EXCEPT !["loop"] = IF gate = "CFUN=4" THEN "CFUN=1" ELSE "idle"]
              /\ UNCHANGED newState
    /\ UNCHANGED <<shared, oldState, line, reading, timed, world>>

\* currentState = getRadioState(): the state is read again, and is stale
\* when the command that follows has been answered.
requestRadioPower(onOff) ==
    /\ At("loop", PowerPc(onOff))
    /\ LET command == IF onOff = 0 /\ sState # "OFF" THEN "CFUN=4"
                      ELSE IF onOff = 1 /\ sState = "OFF" THEN "CFUN=1"
                      ELSE "idle"
       IN  Goto("loop", command)
    /\ UNCHANGED <<shared, locals, env>>

\* AT+CFUN=4 of requestRadioPower and resetRadio: the radio is off when the
\* modem says so, and resetRadio goes on with AT+CFUN=1.
PowerOff ==
    /\ At("loop", "CFUN=4")
    /\ \/ Call_setRadioState("loop", "OFF", ret["loop"])
       \/ Goto("loop", "idle") /\ UNCHANGED <<newState, ret>>
    /\ UNCHANGED <<shared, oldState, env>>

-----------------------------------------------------------------------------

\* Every thread is blocked: the reader in select, the event loop in its own
\* select with no callback due, mainLoop in waitForClose.
Quiescent ==
    /\ At("reader", "idle") /\ At("loop", "idle") /\ At("main", "waitForClose")
    /\ timed = {}

Waiting ==
    /\ Quiescent /\ s_closed = 0
    /\ UNCHANGED vars

Next ==
    \/ \E t \in Threads :
          \/ setRadioState(t) \/ NotConnectedYet(t) \/ StateChanged(t)
          \/ ClearFlag(t) \/ RestoreFlag(t)
          \/ TestNewConnection(t) \/ TestFirstGet(t) \/ ClearFirstGet(t)
          \/ RequestLatest(t)
    \/ \E s \in Indications : onUnsolicited(s)
    \/ onUnsolicited_sim \/ onUnsolicited_mm \/ onATReaderClosed
    \/ mainLoop \/ RequestInit \/ waitForClose
    \/ onNewCommandConnect \/ Disconnect
    \/ reportLatestRadioState \/ onSimInitReady \/ initializeCallback
    \/ updateRadioState
    \/ \E r \in Requests : onRequest(r)
    \/ \E onOff \in {0, 1} : requestRadioPower(onOff)
    \/ PowerOff
    \/ Waiting

Spec == Init /\ [][Next]_vars

-----------------------------------------------------------------------------
(* Properties *)

\* When every thread has come to rest, a connected application has been told
\* the radio state that is in sState.  setRadioState reports after the unlock
\* and only when sFirstGet is 0, onCurrentState answers RADIO_STATE_OFF to a
\* first call and leaves the rest to the timed reportLatestRadioState: between
\* them no change of sState may go unreported, whatever the three threads do
\* in between.
UpperLayerLearnsTheState ==
    Quiescent /\ connected => reported = sState

\* The radio state machine implements RadioReport: sState changes only
\* while some thread is at work, the application is told sState as it is at
\* that moment or RADIO_STATE_OFF and nothing else, and the threads come to
\* rest only when the application's copy is current.  onCurrentState reads
\* sState without the mutex, on whichever thread reports.
Report ==
    INSTANCE RadioReport WITH
        States <- RadioStates, Off <- "OFF", Nothing <- "none",
        radio <- sState, told <- reported, owed <- ~Quiescent

ImplementsRadioReport == Report!Spec

\* onCurrentState's comment: "We set init state as RADIO_OFF. If we set real
\* state other that RADIO_OFF, upper layer will send AT+CFUN=0 to reset
\* radio": the first answer to a new connection is RADIO_STATE_OFF.
NewConnectionIsToldOff ==
    [][connected /\ ret["loop"] = "connect" /\ ret'["loop"] = "idle"
          => reported' = "OFF"]_vars

\* ril-mm.c on +CSQ: 99,99: "CP is asserted or resetting ... Init radio state
\* to RADIO OFF": until initializeCallback has run again, the radio is off or
\* unavailable whenever the threads are at rest.
ResetRadioStaysOff ==
    Quiescent /\ AfterCPReset = 1 => sState \in {"OFF", "UNAVAILABLE"}

=============================================================================
