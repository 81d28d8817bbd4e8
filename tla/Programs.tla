------------------------------ MODULE Programs ------------------------------
(***************************************************************************)
(* The programs of the device that share no state: the GPS library glue    *)
(* (Gps), the AT reader daemon (RilReader), the Wi-Fi connect tool         *)
(* (WifiConnect), the command socket with its client alone                 *)
(* (RecoverySocket), the recovery tool with the socket in it (Recovery)    *)
(* with its update scripts (UpdateScripts), the callers of the key service  *)
(* and the cloud (CloudAuth), the display of the tool (Graphics) and the   *)
(* PDU test client (SendPdu).  A behaviour is a behaviour of one of them:  *)
(* `program` says of which, and the others stay as they start.  Every step *)
(* of Next is one action of one program.                                   *)
(***************************************************************************)
EXTENDS Integers, Sequences, FiniteSets

CONSTANTS
    \* Gps
    MAX_NMEA_TOKENS, Today, NMEA_MAX_SIZE, GPS_MAX_SVS, Sentences, CallbackSets, MaxLoads,
    MaxSentences,
    \* RilReader
    RilArgvs, MaxOpens,
    \* WifiConnect
    Stored, Events, MaxEvents,
    \* RecoverySocket, alone and in Recovery
    BUFFER, RecvMayFail, SplitAt, SockArgvs, SockClients, SockStack,
    RecArgvs, RecClients, RecStack,
    \* Recovery
    KeyRuns, Commands, CachePackages, SdPackages, MaxForks,
    \* UpdateScripts
    Listings, TABLE, POINTER, MaxVisits,
    \* CloudAuth
    Raws, Randoms, Uids, SIGNATURE, AuthRoom, BUF, MaxStreams, MaxRequests, Bodies, MAX_HTTP_RESPONSE_SIZE,
    \* Graphics
    Alphabet, MaxText,
    \* SendPdu
    PduArgvs, BufSize

VARIABLES
    program,
    \* Gps
    init, callbacks, first_fix, reader, dlHandle, sirf, loads, lsm, misuse, crashed, handed,
    \* RilReader
    ril_pc, s_port, s_device_path, s_device_socket, s_closed, s_fd, held, opened, at_reader,
    \* WifiConnect
    wifi_pc, up, networkId, networks, added, selected, associated, queue, events, last,
    \* RecoverySocket
    server, s_fdListen, s_fdCommand, p_record, backlog, wire, executed, sent, clients,
    rebooted,
    \* Recovery
    bcb, command_file, intent_file, data, cache, system, packages, pc, argv, opts, status,
    ret, waiting, promised,
    \* UpdateScripts
    us_pc, name, scripts, us_num, menu_items, us_chosen_item, ran, us_outside, visits,
    listing,
    \* CloudAuth
    caller, ca_pc, uid, randoms, ca_ret, size, signature, streams, curl_http_response_code,
    requests, given, signed, verdict, outside, cloud,
    \* Graphics
    gr_fb_fd, gr_vt_fd, surface, mem, fb, gr_active_fb, panel, kd, g_gr_auto_text_color,
    color, display, fault,
    \* SendPdu
    pdu_status, pdu_argv, pdu_fd, pdu_wire

G == INSTANCE Gps
R == INSTANCE RilReader WITH Argvs <- RilArgvs, pc <- ril_pc, reader <- at_reader
W == INSTANCE WifiConnect WITH pc <- wifi_pc, sent <- events
S == INSTANCE RecoverySocket WITH Argvs <- SockArgvs, MaxClients <- SockClients,
                                  Stack <- SockStack
T == INSTANCE Recovery WITH Argvs <- RecArgvs, MaxClients <- RecClients, Stack <- RecStack

\* The answers of the tool's menus to the runs of keys.
ItemAnswers   == T!ItemAnswers
MethodAnswers == T!MethodAnswers
ScriptAnswers == T!ScriptAnswers

U == INSTANCE UpdateScripts WITH pc <- us_pc, num <- us_num, chosen_item <- us_chosen_item,
                                 outside <- us_outside
C == INSTANCE CloudAuth WITH MaxFiles <- MaxStreams, pc <- ca_pc, ret <- ca_ret
D == INSTANCE Graphics WITH data <- surface, up <- display
P == INSTANCE SendPdu WITH status <- pdu_status, argv <- pdu_argv, fd <- pdu_fd,
                           wire <- pdu_wire

gpsVars  == <<init, callbacks, first_fix, reader, dlHandle, sirf, loads, lsm, misuse, crashed,
              handed>>
rilVars  == <<ril_pc, s_port, s_device_path, s_device_socket, s_closed, s_fd, held, opened,
              at_reader>>
wifiVars == <<wifi_pc, up, networkId, networks, added, selected, associated, queue, events,
              last>>
sockVars == <<server, s_fdListen, s_fdCommand, p_record, backlog, wire, executed, sent,
              clients, rebooted>>
recVars  == <<bcb, command_file, intent_file, data, cache, system, packages, pc, argv, opts,
              status, ret, waiting, promised>>
usVars   == <<us_pc, name, scripts, us_num, menu_items, us_chosen_item, ran, us_outside,
              visits, listing>>
authVars == <<caller, ca_pc, uid, randoms, ca_ret, size, signature, streams,
              curl_http_response_code, requests, given, signed, verdict, outside, cloud>>
grVars   == <<gr_fb_fd, gr_vt_fd, surface, mem, fb, gr_active_fb, panel, kd,
              g_gr_auto_text_color, color, display, fault>>
pduVars  == <<pdu_status, pdu_argv, pdu_fd, pdu_wire>>
vars     == <<program, gpsVars, rilVars, wifiVars, sockVars, recVars, usVars, authVars,
              grVars, pduVars>>

Init ==
    /\ program \in {"Gps", "RilReader", "WifiConnect", "RecoverySocket", "Recovery",
                    "UpdateScripts", "CloudAuth", "Graphics", "SendPdu"}
    /\ G!Init /\ R!Init /\ W!Init /\ T!RecInit /\ U!Init /\ C!Init /\ D!Init /\ P!Init
    /\ IF program = "RecoverySocket" THEN S!SockInit ELSE T!SockInit
    /\ program # "WifiConnect" => ~associated
    /\ program # "CloudAuth" => caller = "test"

\* The program whose step it is; the others do nothing.
Gps            == program = "Gps"
                      /\ UNCHANGED <<program, rilVars, wifiVars, sockVars, recVars, usVars,
                                     authVars, grVars, pduVars>>
RilReader      == program = "RilReader"
                      /\ UNCHANGED <<program, gpsVars, wifiVars, sockVars, recVars, usVars,
                                     authVars, grVars, pduVars>>
WifiConnect    == program = "WifiConnect"
                      /\ UNCHANGED <<program, gpsVars, rilVars, sockVars, recVars, usVars,
                                     authVars, grVars, pduVars>>
RecoverySocket == program = "RecoverySocket"
                      /\ UNCHANGED <<program, gpsVars, rilVars, wifiVars, recVars, usVars,
                                     authVars, grVars, pduVars>>
Recovery       == program = "Recovery"
                      /\ UNCHANGED <<program, gpsVars, rilVars, wifiVars, usVars, authVars,
                                     grVars, pduVars>>
UpdateScripts  == program = "UpdateScripts"
                      /\ UNCHANGED <<program, gpsVars, rilVars, wifiVars, sockVars, recVars,
                                     authVars, grVars, pduVars>>
CloudAuth      == program = "CloudAuth"
                      /\ UNCHANGED <<program, gpsVars, rilVars, wifiVars, sockVars, recVars,
                                     usVars, grVars, pduVars>>
Graphics       == program = "Graphics"
                      /\ UNCHANGED <<program, gpsVars, rilVars, wifiVars, sockVars, recVars,
                                     usVars, authVars, pduVars>>
SendPdu        == program = "SendPdu"
                      /\ UNCHANGED <<program, gpsVars, rilVars, wifiVars, sockVars, recVars,
                                     usVars, authVars, grVars>>

Next ==
    \* Gps
    \/ \E cb \in CallbackSets, outcome \in G!LoadOutcomes, sem_ok, init_ok \in BOOLEAN :
           Gps /\ G!marvell_gps_init(cb, outcome, sem_ok, init_ok)
    \/ Gps /\ G!marvell_gps_cleanup
    \/ Gps /\ G!marvell_gps_start
    \/ Gps /\ G!marvell_gps_stop
    \/ Gps /\ G!marvell_gps_delete_aiding_data
    \/ Gps /\ G!marvell_gps_set_position_mode
    \/ Gps /\ G!marvell_agps_init
    \/ Gps /\ G!marvell_agps_set_server
    \/ Gps /\ G!Marvell_gps_ni_init
    \/ Gps /\ G!Marvell_gps_ni_respond
    \/ \E msg \in Sentences : Gps /\ G!gps_nmea_data_process(msg)
    \/ Gps /\ G!Crashed
    \* RilReader
    \/ \E args \in RilArgvs : RilReader /\ R!main(args)
    \/ \E ok \in BOOLEAN : RilReader /\ R!OpenInterface(ok)
    \/ \E ok \in BOOLEAN : RilReader /\ R!StartChannel(ok)
    \/ RilReader /\ R!waitForClose
    \/ RilReader /\ R!SpuriousWakeup
    \/ \E g \in R!Opens : RilReader /\ R!onATReaderClosed(g)
    \/ RilReader /\ R!Stopped
    \* WifiConnect
    \/ \E done \in 0..Len(W!InitSteps) : WifiConnect /\ W!init_stage(done)
    \/ \E reply, set1, set2 \in W!Replies :
           WifiConnect /\ W!config_stage(reply, set1, set2)
    \/ \E reply \in W!Replies : WifiConnect /\ W!connect_stage(reply)
    \/ WifiConnect /\ W!wifi_wait_for_event
    \/ \E ok \in BOOLEAN : WifiConnect /\ W!dhcp_stage(ok)
    \/ \E e \in Events : WifiConnect /\ W!SupplicantEvent(e)
    \/ WifiConnect /\ W!Idle
    \* RecoverySocket
    \/ \E created \in BOOLEAN : RecoverySocket /\ S!init_server(created)
    \/ \E bound, listening \in BOOLEAN : RecoverySocket /\ S!event_loop(bound, listening)
    \/ \E ok \in BOOLEAN : RecoverySocket /\ S!accept(ok)
    \/ \E n \in -1..BUFFER : RecoverySocket /\ S!recv(n)
    \/ RecoverySocket /\ S!install_package
    \/ \E args \in SockArgvs : RecoverySocket /\ S!sendmessage(args)
    \/ RecoverySocket /\ S!SockIdle
    \* Recovery
    \/ Recovery /\ T!get_args
    \/ Recovery /\ T!main
    \/ \E result \in T!Results : Recovery /\ T!main_install_package(result)
    \/ \E hook, ok \in BOOLEAN : Recovery /\ T!main_wipe_data(hook, ok)
    \/ \E ok \in BOOLEAN : Recovery /\ T!main_wipe_cache(ok)
    \/ Recovery /\ T!main_status
    \/ \E created \in BOOLEAN : Recovery /\ T!main_init_server(created)
    \/ Recovery /\ T!finish_recovery
    \/ Recovery /\ T!prompt_and_wait
    \/ \E chosen_item \in T!MENU_ITEMS : Recovery /\ T!menu(chosen_item)
    \/ \E confirm, visible \in BOOLEAN, chosen_item \in ItemAnswers :
           Recovery /\ T!wipe_data(confirm, chosen_item, visible)
    \/ \E ok \in BOOLEAN : Recovery /\ T!menu_erase_data(ok)
    \/ \E ok, visible \in BOOLEAN : Recovery /\ T!menu_erase_cache(ok, visible)
    \/ \E chosen_item \in {T!MENU_BACK} \union 0..Cardinality(SdPackages),
                 action_item \in ItemAnswers :
           Recovery /\ T!yh_sdcard_update(chosen_item, action_item)
    \/ \E result \in T!Results, visible \in BOOLEAN :
           Recovery /\ T!sdcard_install_package(result, visible)
    \/ \E forked, execed \in BOOLEAN : Recovery /\ T!update_script(forked, execed)
    \/ \E chosen_item \in MethodAnswers, forked, execed \in BOOLEAN :
           Recovery /\ T!choose_connection_method(chosen_item, forked, execed)
    \/ \E outcome \in {"END", "authenticated", "refused"}, num \in {0, 3},
          chosen_item \in ScriptAnswers, forked, execed \in BOOLEAN, result \in T!Results :
           Recovery /\ T!enter_remote_update(outcome, num, chosen_item, forked, execed,
                                             result)
    \/ Recovery /\ T!Server
    \/ \E result \in T!Results : Recovery /\ T!server_install_package(result)
    \/ Recovery /\ T!reboot
    \/ Recovery /\ T!PowerLoss
    \/ \E keys \in BOOLEAN : Recovery /\ T!Boot(keys)
    \/ \E command \in Commands : Recovery /\ T!MainSystemRequests(command)
    \* UpdateScripts
    \/ UpdateScripts /\ U!enter_remote_update
    \/ \E opened_ \in BOOLEAN, entries \in Listings :
           UpdateScripts /\ U!find_sdcard_update_script(opened_, entries)
    \/ \E run \in KeyRuns, readable \in BOOLEAN : UpdateScripts /\ U!menu(run, readable)
    \/ \E forked \in BOOLEAN : UpdateScripts /\ U!fork(forked)
    \/ UpdateScripts /\ U!Ended
    \* CloudAuth
    \/ \E opened_, exists \in BOOLEAN, id \in Uids : CloudAuth /\ C!Start(opened_, exists, id)
    \/ \E reply \in C!RegisterReplies : CloudAuth /\ C!check_register(reply)
    \/ CloudAuth /\ C!GET_PRI
    \/ \E reply \in C!RandomReplies : CloudAuth /\ C!apply_random(reply)
    \/ \E raw \in Raws \union {<<>>}, opened_ \in BOOLEAN :
           CloudAuth /\ C!Sign_backup(raw, opened_)
    \/ \E raw \in Raws \union {<<>>}, opened_ \in BOOLEAN :
           CloudAuth /\ C!Sign_recovery(raw, opened_)
    \/ \E reply \in C!VerifyReplies : CloudAuth /\ C!authenticate_backup(reply)
    \/ \E reply \in C!VerifyReplies : CloudAuth /\ C!authenticate_recovery(reply)
    \/ \E opened_ \in BOOLEAN, res \in {C!CURLE_OK, 7}, code \in C!Statuses, body \in Bodies :
           CloudAuth /\ C!UPLOAD(opened_, res, code, body)
    \/ \E opened_ \in BOOLEAN, res \in {C!CURLE_OK, 7}, code \in C!Statuses :
           CloudAuth /\ C!update_preference(opened_, res, code)
    \/ \E opened_ \in BOOLEAN, res \in {C!CURLE_OK, 7}, code \in C!Statuses, body \in Bodies :
           CloudAuth /\ C!test(opened_, res, code, body)
    \/ CloudAuth /\ C!Ended
    \* Graphics
    \/ \E tty, graphics, mapped, allocated, swapped \in BOOLEAN :
           Graphics /\ D!gr_init(tty, graphics, mapped, allocated, swapped)
    \/ Graphics /\ D!gr_exit
    \/ \E c \in {"white", "green"} : Graphics /\ D!gr_color(c)
    \/ \E enable \in {0, 1} : Graphics /\ D!gr_auto_text_color(enable)
    \/ Graphics /\ D!gr_fill
    \/ Graphics /\ \E source \in D!Pictures : D!gr_blit(source)
    \/ \E s \in D!Texts : Graphics /\ D!gr_text(s)
    \/ \E swapped \in BOOLEAN : Graphics /\ D!gr_flip(swapped)
    \/ Graphics /\ D!Ended
    \* SendPdu
    \/ \E args \in PduArgvs, connected \in BOOLEAN : SendPdu /\ P!main(args, connected)
    \/ \E taken \in {"all", "some", "none"} : SendPdu /\ P!send(taken)
    \/ SendPdu /\ P!Ended

Spec == Init /\ [][Next]_vars

-----------------------------------------------------------------------------
(* The properties of the programs, each stated in its module.              *)

\* Gps: the state of the glue of gps_marvell_sirf.c has its form, the
\* reader's sentence fits its buffer and sv_list has num_svs entries.
GpsTypeOK == G!GpsTypeOK

\* Gps: nmea_tokenizer_init and nmea_tokenizer_get give the fields of the
\* sentence.
TokensAreTheFields == G!TokensAreTheFields

\* Gps: the GSV loop of nmea_reader_parse does not overrun sv_list.
SvListWithinBounds == G!SvListWithinBounds

\* Gps: marvell_gps_init never initialises an initialised library.
LibraryInitialisedOnce == G!LibraryInitialisedOnce

\* Gps: while gps_state->init is STATE_QUIT the library is idle.
QuitMeansLibraryIdle == G!QuitMeansLibraryIdle

\* RilReader: a reader thread reads the descriptor of its own at_open, and
\* mainLoop holds one descriptor at most.
ReaderReadsItsOwnChannel == R!ReaderReadsItsOwnChannel

\* WifiConnect: connect_stage selects a network config_stage has added and
\* configured.
SelectsAConfiguredNetwork == W!SelectsAConfiguredNetwork

\* RecoverySocket: process_cmd runs the commands sendmessage sent, in order.
RunsWhatWasSent == S!RunsWhatWasSent

\* RecoverySocket: process_cmd's memcpy stays in the record and the buffer.
CopyStaysInTheBuffers == S!CopyStaysInTheBuffers

\* Recovery: the flash and main's variables have their form.
RecoveryTypeOK == T!RecoveryTypeOK

\* Recovery: a command main set out to run is done when the main system
\* starts again, wherever the power was lost.
CommandedWorkSurvivesRestart == T!CommandedWorkSurvivesRestart

\* Recovery: a package of the SD card is installed with the BCB written, so
\* that a device that goes down in between starts the tool again.
CardInstallRestartsTheTool == T!CardInstallRestartsTheTool

\* UpdateScripts: the first call of find_sdcard_update_script fills the
\* tables with the scripts of the directory, in its order.
FirstListingFillsTheTables == U!FirstListingFillsTheTables

\* CloudAuth: URLEncode computes the encoding of every signature that fits.
EncodesWhatFits == program = "CloudAuth" => C!EncodesWhatFits

\* CloudAuth: the header that UPLOAD of backup_action and update_preference
\* of enter_remote_update send carries the token of the text for which
\* cpk_authentication returned CA_TRUE in this pass.
TransfersWhatWasAuthenticated == C!TransfersWhatWasAuthenticated

\* Graphics: a word gr_special_text_color knows is drawn in one colour.
MatchIsColouredWhole == program = "Graphics" => D!MatchIsColouredWhole

\* Graphics: while the driver shows the active page, gr_flip copies into the
\* page behind it.
FlipWritesTheBackBuffer == D!FlipWritesTheBackBuffer

\* SendPdu: when main returns 0 the daemon was sent "11" and the arguments
\* of the command line, each after its length.
SendsThePdu == P!SendsThePdu

=============================================================================
