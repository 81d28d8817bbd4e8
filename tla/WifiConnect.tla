----------------------------- MODULE WifiConnect -----------------------------
(***************************************************************************)
(* The Wi-Fi connect tool of wificonnect.c: main runs init_stage,          *)
(* config_stage, connect_stage and dhcp_stage and leaves with exit(-1) at  *)
(* the first that fails.                                                   *)
(*                                                                         *)
(* The driver, wpa_supplicant and the DHCP client are the environment.  Of *)
(* the supplicant the model keeps the networks it has, which of them is    *)
(* selected, whether it is associated, and the events it has queued on the *)
(* tool's monitor connection.  A reply and an event are texts: sequences   *)
(* of words, the last of a reply being its newline.                        *)
(***************************************************************************)
EXTENDS Integers, Sequences, FiniteSets, SequencesExt

CONSTANTS
    Stored,         \* ids of the networks the supplicant's configuration holds
    Events,         \* the events the supplicant may send
    MaxEvents       \* bound: events of one run

NL        == "\n"
OK        == <<"OK">>
FAIL      == <<"FAIL">>
CONNECTED == "CONNECTED"
NoReply   == <<"no reply">>      \* wifi_command returned an error

ASSUME /\ Stored \subseteq Nat /\ IsFiniteSet(Stored)
       /\ MaxEvents \in Nat
       /\ \A e \in Events : e \in Seq(STRING)

InitSteps == <<"wifi_load_driver", "wifi_start_supplicant", "wifi_connect_to_supplicant",
               "ifc_enable">>

VARIABLES
    pc,             \* the stage main is about to run, "exit(-1)" or "return 0"
    up,             \* the steps of init_stage that are done and never undone
    networkId,      \* main's ret after config_stage
    networks,       \* supplicant: id -> the variables set of the network
    added,          \* history: the id ADD_NETWORK really gave, or -1
    selected,       \* supplicant: the network it was told to use, or -1
    associated,     \* supplicant: associated with the selected network
    queue,          \* events queued on the monitor connection
    sent,           \* history: events sent so far
    last            \* history: the event that ended connect_stage's wait

vars == <<pc, up, networkId, networks, added, selected, associated, queue, sent, last>>

\* The tool starts; a supplicant that runs already (the tool never stops the
\* one it started) may be associated with a network of its configuration.
Init ==
    /\ pc = "init_stage" /\ up = {} /\ networkId = -1
    /\ networks = [n \in Stored |-> {}]
    /\ added = -1 /\ selected = -1
    /\ associated \in {a \in BOOLEAN : a => Stored # {}}
    /\ queue = <<>> /\ sent = 0 /\ last = <<>>

-----------------------------------------------------------------------------
(* The command helpers.                                                    *)

\* doCommand: the reply without its trailing newline.
doCommand(reply) == IF reply # <<>> /\ Last(reply) = NL THEN Front(reply) ELSE reply

\* atoi of a reply of one word: the number it starts with, 0 without one.
Numerals == <<"0", "1", "2", "3">>
atoi(text) ==
    IF text # <<>> /\ \E i \in DOMAIN Numerals : Numerals[i] = text[1]
    THEN (CHOOSE i \in DOMAIN Numerals : Numerals[i] = text[1]) - 1
    ELSE 0

doIntCommand(reply) == IF reply = NoReply THEN -1 ELSE atoi(doCommand(reply))

doBooleanCommand(reply, expect) == reply # NoReply /\ doCommand(reply) = expect

\* The text of a number, as the supplicant prints it.
Numeral(n) == <<Numerals[n + 1], NL>>

\* strstr(buf, CONNECTED): the word stands somewhere in the event.
strstr(buf, word) == \E i \in DOMAIN buf : buf[i] = word

-----------------------------------------------------------------------------
(* The supplicant's side of a command.                                     *)

\* The id ADD_NETWORK gives: the smallest one no network has.
FreeId ==
    CHOOSE n \in 0..Cardinality(DOMAIN networks) :
        n \notin DOMAIN networks /\ \A k \in 0..(n - 1) : k \in DOMAIN networks

\* What the supplicant may answer to SET_NETWORK and SELECT_NETWORK of an id,
\* with the networks it has.
Answers(nets, id) ==
    {NoReply} \union IF id \in DOMAIN nets THEN {OK \o <<NL>>} ELSE {FAIL \o <<NL>>}

-----------------------------------------------------------------------------
(* The stages.                                                             *)

\* main: the stages in their order, exit(-1) after the first that fails.
main(stage, ok) ==
    CASE ~ok                     -> "exit(-1)"
      [] stage = "init_stage"    -> "config_stage"
      [] stage = "config_stage"  -> "connect_stage"
      [] stage = "connect_stage" -> "dhcp_stage"
      [] stage = "dhcp_stage"    -> "return 0"

\* The first `done` steps succeed and stay done; the next one fails.
init_stage(done) ==
    /\ pc = "init_stage"
    /\ up' = {InitSteps[i] : i \in 1..done}
    /\ pc' = main("init_stage", done = Len(InitSteps))
    /\ UNCHANGED <<networkId, networks, added, selected, associated, queue, sent, last>>

\* config_stage (mutant): the reply to the second SET_NETWORK is not looked at.
config_stage_second_unchecked(reply, set1, set2) ==
    LET id   == doIntCommand(reply)
        add  == reply = Numeral(FreeId)
        nets == IF add THEN [n \in DOMAIN networks \union {FreeId} |->
                                 IF n = FreeId THEN {} ELSE networks[n]]
                ELSE networks
        ok1  == id >= 0 /\ doBooleanCommand(set1, OK)
        with == (IF ok1 THEN {"ssid"} ELSE {})
                    \union (IF ok1 /\ doBooleanCommand(set2, OK) THEN {"key_mgmt"} ELSE {})
    IN  /\ pc = "config_stage"
        /\ reply \in {Numeral(FreeId), FAIL \o <<NL>>, NoReply}
        /\ set1 \in IF id >= 0 THEN Answers(nets, id) ELSE {NoReply}
        /\ set2 \in IF ok1 THEN Answers(nets, id) ELSE {NoReply}
        /\ added' = IF add THEN FreeId ELSE -1
        /\ networks' = IF with = {} THEN nets ELSE [nets EXCEPT ![id] = @ \union with]
        /\ networkId' = IF ok1 THEN id ELSE -1
        /\ pc' = main("config_stage", ok1)
        /\ UNCHANGED <<up, selected, associated, queue, sent, last>>

\* ADD_NETWORK, then SET_NETWORK of ssid and of key_mgmt for the id read
\* from the reply, each sent when the one before went well.  The supplicant
\* adds a network when its reply is the new id.
config_stage(reply, set1, set2) ==
    LET id   == doIntCommand(reply)
        add  == reply = Numeral(FreeId)
        nets == IF add THEN [n \in DOMAIN networks \union {FreeId} |->
                                 IF n = FreeId THEN {} ELSE networks[n]]
                ELSE networks
        ok1  == id >= 0 /\ doBooleanCommand(set1, OK)
        ok2  == ok1 /\ doBooleanCommand(set2, OK)
        with == (IF ok1 THEN {"ssid"} ELSE {}) \union (IF ok2 THEN {"key_mgmt"} ELSE {})
    IN  /\ pc = "config_stage"
        /\ reply \in {Numeral(FreeId), FAIL \o <<NL>>, NoReply}
        /\ set1 \in IF id >= 0 THEN Answers(nets, id) ELSE {NoReply}
        /\ set2 \in IF ok1 THEN Answers(nets, id) ELSE {NoReply}
        /\ added' = IF add THEN FreeId ELSE -1
        /\ networks' = IF with = {} THEN nets ELSE [nets EXCEPT ![id] = @ \union with]
        /\ networkId' = IF ok2 THEN id ELSE -1
        /\ pc' = main("config_stage", ok2)
        /\ UNCHANGED <<up, selected, associated, queue, sent, last>>

\* SELECT_NETWORK; the supplicant that obeys leaves the network it was
\* associated with and reports that.
connect_stage(reply) ==
    /\ pc = "connect_stage"
    /\ reply \in Answers(networks, networkId)
    /\ IF reply = OK \o <<NL>>
       THEN /\ selected' = networkId /\ associated' = FALSE
            /\ queue' = IF associated THEN Append(queue, <<"CTRL-EVENT-", "DIS", CONNECTED>>)
                        ELSE queue
       ELSE UNCHANGED <<selected, associated, queue>>
    /\ pc' = IF doBooleanCommand(reply, OK) THEN "wifi_wait_for_event"
             ELSE main("connect_stage", FALSE)
    /\ UNCHANGED <<up, networkId, networks, added, sent, last>>

\* One turn of the loop of lines 173-182: the next event is read, and the
\* wait ends when it holds the word CONNECTED.
wifi_wait_for_event ==
    /\ pc = "wifi_wait_for_event" /\ queue # <<>>
    /\ queue' = Tail(queue)
    /\ IF strstr(Head(queue), CONNECTED)
       THEN pc' = main("connect_stage", TRUE) /\ last' = Head(queue)
       ELSE UNCHANGED <<pc, last>>
    /\ UNCHANGED <<up, networkId, networks, added, selected, associated, sent>>

dhcp_stage(ok) ==
    /\ pc = "dhcp_stage"
    /\ pc' = main("dhcp_stage", ok)
    /\ UNCHANGED <<up, networkId, networks, added, selected, associated, queue, sent, last>>

-----------------------------------------------------------------------------
(* The supplicant: once the monitor connection is there its events are     *)
(* queued, whatever the tool is doing.                                     *)

SupplicantEvent(e) ==
    /\ "wifi_connect_to_supplicant" \in up /\ sent < MaxEvents
    /\ pc \notin {"exit(-1)", "return 0"}
    /\ e = <<"CTRL-EVENT-", CONNECTED>> => ~associated /\ (selected >= 0 \/ Stored # {})
    /\ e = <<"CTRL-EVENT-", "DIS", CONNECTED>> => associated
    /\ associated' = CASE e = <<"CTRL-EVENT-", CONNECTED>>        -> TRUE
                       [] e = <<"CTRL-EVENT-", "DIS", CONNECTED>> -> FALSE
                       [] OTHER                                   -> associated
    /\ queue' = Append(queue, e) /\ sent' = sent + 1
    /\ UNCHANGED <<pc, up, networkId, networks, added, selected, last>>

\* Every reply the tool may read.
Replies == {NoReply} \union {w \o <<NL>> : w \in {OK, FAIL} \union {<<n>> : n \in Range(Numerals)}}

\* main has left, or waits for an event that does not come.
Idle ==
    /\ \/ pc \in {"exit(-1)", "return 0"}
       \/ pc = "wifi_wait_for_event" /\ queue = <<>> /\ sent = MaxEvents
    /\ UNCHANGED vars

Next ==
    \/ \E done \in 0..Len(InitSteps) : init_stage(done)
    \/ \E reply, set1, set2 \in Replies : config_stage(reply, set1, set2)
    \/ \E reply \in Replies : connect_stage(reply)
    \/ wifi_wait_for_event
    \/ \E ok \in BOOLEAN : dhcp_stage(ok)
    \/ \E e \in Events : SupplicantEvent(e)
    \/ Idle

Spec == Init /\ [][Next]_vars

-----------------------------------------------------------------------------
(* Properties.                                                             *)

\* config_stage gives main a network id only when ADD_NETWORK and both
\* SET_NETWORK went well: the network the supplicant is told to select
\* exists there and has the ssid and the key_mgmt of the tool.
SelectsAConfiguredNetwork ==
    selected >= 0 =>
        selected \in DOMAIN networks /\ networks[selected] = {"ssid", "key_mgmt"}

\* config_stage's "Add a new network id": the tool writes its ssid and
\* key_mgmt to the network ADD_NETWORK gave it and to no other.
ConfiguresOnlyItsOwnNetwork ==
    \A n \in DOMAIN networks : networks[n] # {} => n = added

\* connect_stage's "wait for connect": dhcp_stage runs when the supplicant
\* has reported that it is connected.
WaitEndsOnConnected ==
    pc = "dhcp_stage" => last = <<"CTRL-EVENT-", CONNECTED>>

=============================================================================
