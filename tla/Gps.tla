--------------------------------- MODULE Gps ---------------------------------
(***************************************************************************)
(* The GPS HAL of gps_marvell_sirf.c, as built: TIMER_THREAD is undefined  *)
(* (line 38), so there is no timer thread and the fix lock is empty;       *)
(* ANDROID_LOAD_SIRF_LIB is undefined, so the receiver's library is loaded *)
(* with dlopen and called through eleven function pointers; SIRF_GSD3TW is *)
(* undefined, so the library is given the framework's callbacks.           *)
(*                                                                         *)
(* The framework calls the functions of the interface tables in any order  *)
(* it likes; the library, once started, hands NMEA sentences to            *)
(* gps_nmea_data_process.  The library is the environment: of it the model *)
(* keeps whether it is idle, initialised or running, and which calls it    *)
(* received in a state its contract does not allow.  A call through a NULL *)
(* pointer ends the process.                                               *)
(***************************************************************************)
EXTENDS Nmea, FiniteSets

CONSTANTS
    NMEA_MAX_SIZE,      \* bytes of a sentence the reader takes (83)
    GPS_MAX_SVS,        \* entries of sv_status.sv_list (32 in gps.h)
    Sentences,          \* what the library may hand over
    CallbackSets,       \* the callbacks a caller of init may pass
    MaxLoads,           \* bound: handles of the library held at a time
    MaxSentences        \* bound: sentences the library hands over in a run

STATE_QUIT  == 0
STATE_INIT  == 1
STATE_START == 2
STATE_STOP  == 3

Callbacks == {"location_cb", "sv_status_cb"}
NoCrash   == "none"
LoadOutcomes == {"no_library", "no_symbol", "loaded"}

ASSUME /\ NMEA_MAX_SIZE \in Nat /\ GPS_MAX_SVS \in Nat /\ MaxLoads \in Nat \ {0}
       /\ MaxSentences \in Nat
       /\ CallbackSets \subseteq SUBSET Callbacks
       /\ \A s \in Sentences : s \in Seq(STRING)

VARIABLES
    init,           \* gps_state->init
    callbacks,      \* the members of gps_state->callbacks that are not NULL
    first_fix,      \* gps_state->first_fix
    reader,         \* gps_state->reader
    dlHandle,       \* dlHandle is not NULL
    sirf,           \* the sirf_* pointers are not NULL (all are set together)
    loads,          \* handles of the library the process holds
    lsm,            \* the library: "idle", "ready" (initialised) or "running"
    misuse,         \* history: calls that reached the library in the wrong state
    crashed,        \* the sirf_* pointer that was called when NULL, or NoCrash
    handed          \* history: sentences handed over so far

halVars == <<init, callbacks, first_fix, reader>>
libVars == <<dlHandle, sirf, loads, lsm, misuse>>
vars    == <<halVars, libVars, crashed, handed>>

\* Static storage: every pointer NULL, gps_state all zero.
Init ==
    /\ init = STATE_QUIT /\ callbacks = {} /\ first_fix = 0
    /\ reader = [nmea_reader_init EXCEPT !.utc = [year |-> 0, mon |-> 0, day |-> 0]]
    /\ dlHandle = FALSE /\ sirf = FALSE /\ loads = 0
    /\ lsm = "idle" /\ misuse = {} /\ crashed = NoCrash /\ handed = 0

-----------------------------------------------------------------------------
(* Loading the library.                                                    *)

\* dlclose of the handle, if there is one, and every pointer NULL.
clear_exported_func ==
    /\ dlHandle' = FALSE
    /\ sirf' = FALSE
    /\ loads' = IF dlHandle THEN loads - 1 ELSE loads

\* dlopen fails; or a symbol is missing and clear_exported_func closes the
\* new handle; or all eleven are found.  The handle of an earlier call is
\* overwritten, not closed.
get_export_func(outcome) ==
    CASE outcome = "no_library" -> dlHandle' = FALSE /\ UNCHANGED <<sirf, loads>>
      [] outcome = "no_symbol"  -> dlHandle' = FALSE /\ sirf' = FALSE /\ UNCHANGED loads
      [] outcome = "loaded"     -> dlHandle' = TRUE /\ sirf' = TRUE /\ loads' = loads + 1

\* The state a call leaves the library in.
Received(call) ==
    CASE call = "sirf_gps_start"   -> "running"
      [] call = "sirf_gps_stop"    -> IF lsm = "idle" THEN "idle" ELSE "ready"
      [] call = "sirf_gps_cleanup" -> "idle"
      [] OTHER                     -> lsm

\* A call through a pointer: it reaches the library, or the pointer is NULL.
CallSirf(call) ==
    IF sirf
    THEN lsm' = Received(call) /\ UNCHANGED <<misuse, crashed>>
    ELSE crashed' = call /\ UNCHANGED <<lsm, misuse>>

-----------------------------------------------------------------------------
(* The state functions.                                                    *)

\* init is STATE_INIT before anything can fail; a failing sem_init returns
\* before the reader and the library are initialised, a failing
\* sirf_gps_init leaves the library as it was.  The pointers were loaded by
\* the caller a moment ago.
gps_state_init(sem_ok, init_ok) ==
    /\ init' = STATE_INIT
    /\ first_fix' = 0
    /\ IF sem_ok
       THEN /\ reader' = nmea_reader_init
            /\ lsm' = IF init_ok THEN "ready" ELSE lsm
            /\ misuse' = IF lsm # "idle" THEN misuse \union {"sirf_gps_init"} ELSE misuse
            /\ UNCHANGED crashed
       ELSE UNCHANGED <<reader, lsm, misuse, crashed>>

\* gps_state_done (mutant): the library is not cleaned up.
gps_state_done_without_cleanup == init' = STATE_QUIT /\ UNCHANGED <<lsm, misuse, crashed>>

gps_state_done  == init' = STATE_QUIT  /\ CallSirf("sirf_gps_cleanup")
gps_state_start == init' = STATE_START /\ CallSirf("sirf_gps_start")
gps_state_stop  == init' = STATE_STOP  /\ CallSirf("sirf_gps_stop")

\* A fix with flags goes to location_cb, a changed status to sv_status_cb;
\* without the callback the data is kept.  fix_freq is -1 in this build.
gps_report_data(r) ==
    LET fixed == r.fix.flags # {} /\ "location_cb" \in callbacks
        seen  == r.sv_status_changed # 0 /\ "sv_status_cb" \in callbacks
    IN  /\ first_fix' = IF fixed THEN 1 ELSE first_fix
        /\ reader' = [r EXCEPT !.fix.flags = IF fixed THEN {} ELSE @,
                               !.sv_status_changed = IF seen THEN 0 ELSE @]

-----------------------------------------------------------------------------
(* The interface: what the framework calls.                                *)

Uninitialised == init = STATE_QUIT

\* marvell_gps_init (mutant): the state is initialised whatever it is.
marvell_gps_init_unguarded(cb, outcome, sem_ok, init_ok) ==
    /\ crashed = NoCrash /\ loads < MaxLoads
    /\ get_export_func(outcome)
    /\ IF outcome = "loaded"
       THEN callbacks' = cb /\ gps_state_init(sem_ok, init_ok)
       ELSE UNCHANGED <<halVars, lsm, misuse, crashed>>
    /\ UNCHANGED handed

\* Loads the library on every call; initialises the state only when it is
\* not initialised yet.
marvell_gps_init(cb, outcome, sem_ok, init_ok) ==
    /\ crashed = NoCrash /\ loads < MaxLoads
    /\ get_export_func(outcome)
    /\ IF outcome = "loaded"
       THEN /\ callbacks' = cb
            /\ IF Uninitialised THEN gps_state_init(sem_ok, init_ok)
               ELSE UNCHANGED <<init, first_fix, reader, lsm, misuse, crashed>>
       ELSE UNCHANGED <<halVars, lsm, misuse, crashed>>
    /\ UNCHANGED handed

marvell_gps_cleanup ==
    /\ crashed = NoCrash
    /\ IF Uninitialised THEN UNCHANGED <<init, lsm, misuse, crashed>> ELSE gps_state_done
    /\ IF Uninitialised \/ sirf THEN clear_exported_func
       ELSE UNCHANGED <<dlHandle, sirf, loads>>
    /\ UNCHANGED <<callbacks, first_fix, reader, handed>>

marvell_gps_start ==
    /\ crashed = NoCrash
    /\ IF Uninitialised THEN UNCHANGED <<init, lsm, misuse, crashed>> ELSE gps_state_start
    /\ UNCHANGED <<callbacks, first_fix, reader, dlHandle, sirf, loads, handed>>

marvell_gps_stop ==
    /\ crashed = NoCrash
    /\ IF Uninitialised THEN UNCHANGED <<init, lsm, misuse, crashed>> ELSE gps_state_stop
    /\ UNCHANGED <<callbacks, first_fix, reader, dlHandle, sirf, loads, handed>>

\* The functions that hand their arguments to the library, whatever the
\* state.
Forward(call) ==
    /\ crashed = NoCrash
    /\ CallSirf(call)
    /\ UNCHANGED <<halVars, dlHandle, sirf, loads, handed>>

marvell_gps_delete_aiding_data == Forward("sirf_gps_delete_aiding_data")
marvell_gps_set_position_mode  == Forward("sirf_gps_set_position_mode")
marvell_agps_init              == Forward("sirf_agps_init")
marvell_agps_set_server        == Forward("sirf_agps_set_server")
Marvell_gps_ni_init            == Forward("sirf_gps_ni_init")
Marvell_gps_ni_respond         == Forward("sirf_gps_ni_respond")

-----------------------------------------------------------------------------
(* The library's thread.                                                   *)

\* gps_nmea_data_process (mutant): the length is not compared with the buffer.
gps_nmea_data_process_unchecked(msg) ==
    /\ crashed = NoCrash /\ lsm = "running" /\ handed < MaxSentences
    /\ handed' = handed + 1
    /\ reader' = nmea_reader_parse([reader EXCEPT !.pos = Len(msg), !.in = msg])
    /\ UNCHANGED <<init, callbacks, first_fix, libVars, crashed>>

\* A sentence longer than the buffer is dropped; any other is copied,
\* parsed, and reported when the fix has a flag.
gps_nmea_data_process(msg) ==
    /\ crashed = NoCrash /\ lsm = "running" /\ handed < MaxSentences
    /\ handed' = handed + 1
    /\ LET r == nmea_reader_parse([reader EXCEPT !.pos = Len(msg), !.in = msg])
       IN  CASE Len(msg) > NMEA_MAX_SIZE ->
                    UNCHANGED <<reader, first_fix>>
             [] Len(msg) <= NMEA_MAX_SIZE /\ r.fix.flags = {} ->
                    reader' = r /\ UNCHANGED first_fix
             [] OTHER -> gps_report_data(r)
    /\ UNCHANGED <<init, callbacks, libVars, crashed>>

\* The process is dead.
Crashed == crashed # NoCrash /\ UNCHANGED vars

Next ==
    \/ \E cb \in CallbackSets, outcome \in LoadOutcomes, sem_ok, init_ok \in BOOLEAN :
           marvell_gps_init(cb, outcome, sem_ok, init_ok)
    \/ marvell_gps_cleanup
    \/ marvell_gps_start
    \/ marvell_gps_stop
    \/ marvell_gps_delete_aiding_data
    \/ marvell_gps_set_position_mode
    \/ marvell_agps_init
    \/ marvell_agps_set_server
    \/ Marvell_gps_ni_init
    \/ Marvell_gps_ni_respond
    \/ \E msg \in Sentences : gps_nmea_data_process(msg)
    \/ Crashed

Spec == Init /\ [][Next]_vars

-----------------------------------------------------------------------------
(* Properties.                                                             *)

Date == [year : Int, mon : Int, day : Int]

GpsTypeOK ==
    /\ init \in {STATE_QUIT, STATE_INIT, STATE_START, STATE_STOP}
    /\ callbacks \subseteq Callbacks /\ first_fix \in {0, 1}
    /\ reader.pos = Len(reader.in) /\ reader.pos <= NMEA_MAX_SIZE
    /\ reader.utc \in Date /\ reader.fix.timestamp \in Date
    /\ Len(reader.sv_status.sv_list) = reader.sv_status.num_svs
    /\ reader.sv_status_changed \in {0, 1}
    /\ dlHandle \in BOOLEAN /\ sirf \in BOOLEAN /\ loads \in 0..MaxLoads
    /\ lsm \in {"idle", "ready", "running"}

\* The positions of the commas of a text, and its i-th field (from 0):
\* what stands between the i-th comma and the one after it.
Commas(b) == {k \in DOMAIN b : b[k] = ","}
Field(b, i) ==
    LET lo == IF i = 0 THEN 0
              ELSE CHOOSE k \in Commas(b) : Cardinality({j \in Commas(b) : j <= k}) = i
        hi == Min({k \in Commas(b) : k > lo} \union {Len(b) + 1})
    IN  SubSeq(b, lo + 1, hi - 1)

\* The tokenizer: for every index nmea_tokenizer_get asks for, the token
\* nmea_tokenizer_init's loop kept is the field of that index of the
\* sentence's body, and the empty token where the body has no such field or
\* the index is beyond MAX_NMEA_TOKENS.
TokensAreTheFields ==
    LET b == Body(reader.in)
        t == nmea_tokenizer_init(reader.in)
    IN  \A i \in 0..MAX_NMEA_TOKENS :
            nmea_tokenizer_get(t, i) =
                IF i < MAX_NMEA_TOKENS /\ i <= Cardinality(Commas(b)) THEN Field(b, i)
                ELSE <<>>

\* nmea_reader_parse's GSV loop counts satellites against the number the
\* sentence announces and never against the array: as long as the receiver
\* announces no more than GPS_MAX_SVS, sv_list is not overrun, whichever
\* GSV sentences are lost, repeated or arrive out of order.
SvListWithinBounds == reader.sv_status.num_svs <= GPS_MAX_SVS

\* marvell_gps_init initialises the library only when gps_state->init says
\* it is not initialised: sirf_gps_init never reaches a library that was
\* initialised and not cleaned up since, however init, start, stop and
\* cleanup are repeated.
LibraryInitialisedOnce == "sirf_gps_init" \notin misuse

\* gps_state_done: while gps_state->init is STATE_QUIT the library is idle,
\* and handed no sentence to the reader since.
QuitMeansLibraryIdle == crashed = NoCrash /\ Uninitialised => lsm = "idle"

=============================================================================
