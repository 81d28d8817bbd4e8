----------------------------- MODULE ModelValues -----------------------------
(***************************************************************************)
(* The values the programs are checked with: the sentences of a GPS        *)
(* receiver, the command lines of the daemon and of sendmessage, the       *)
(* events of the supplicant, the command files of the main system.         *)
(***************************************************************************)
EXTENDS Integers, Sequences, SequencesExt, Menu

-----------------------------------------------------------------------------
(* Gps.  A sentence is built from its fields; the texts are those of a     *)
(* receiver's output.                                                      *)

MCToday == [year |-> 2012, mon |-> 1, day |-> 1]
MCCallbackSets == {{}, {"location_cb", "sv_status_cb"}}

Pair(a, b) == <<a, b>>
Time  == <<"1", "2", "3", "5", "1", "9">>
Lat   == <<"4", "8", "0", "7", ".", "0">>
Lon   == <<"0", "1", "1", "3", "1", ".", "0">>
Alt   == <<"5", "4", "5">>
Num   == <<"2", ".", "5">>
None  == <<"9", "9", ".", "9", "9">>
E     == <<>>
Id(a, b, c) == <<"G", "P", a, b, c>>

\* "$", the fields with commas between them, the checksum and the newline.
Line(fields) ==
    <<"$">> \o FoldLeft(LAMBDA text, f : text \o <<",">> \o f, Head(fields), Tail(fields))
            \o <<"*", "4", "7", "\r", "\n">>

GGA(status) == Line(<<Id("G", "G", "A"), Time, Lat, <<"N">>, Lon, <<"E">>, <<status>>,
                      <<"0", "8">>, Num, Alt, <<"M">>>>)
GLL(status) == Line(<<Id("G", "L", "L"), Lat, <<"N">>, Lon, <<"E">>, Time, <<status>>>>)
GSA(mode, accuracy) ==
    Line(<<Id("G", "S", "A"), <<"A">>, mode, Pair("0", "4"), Pair("3", "2"), E, E, E, E, E, E, E, E,
           E, E, accuracy>>)
Sat(prn) == <<prn, Pair("4", "0"), Pair("8", "3"), Pair("4", "6")>>
GSV(total, sentence, count, sats) ==
    Line(<<Id("G", "S", "V"), <<total>>, <<sentence>>, <<count>>>> \o FlattenSeq(sats))
RMC(status, date) ==
    Line(<<Id("R", "M", "C"), Time, <<status>>, Lat, <<"N">>, Lon, <<"E">>, Num, Num, date>>)
VTG(mode) ==
    Line(<<Id("V", "T", "G"), Num, <<"T">>, E, <<"M">>, Num, <<"N">>, Num, <<"K">>, mode>>)
ZDA(time, year) ==
    Line(<<Id("Z", "D", "A"), time, Pair("0", "4"), Pair("0", "7"), year, Pair("0", "0")>>)

Four == <<Sat(<<"1">>), Sat(<<"2">>), Sat(<<"3">>), Sat(<<"4">>)>>

\* One sentence of each kind nmea_reader_parse tells apart, with and without
\* a fix, a GSV cycle of two, a date that is no date, and the texts it
\* drops: too short, of more fields than tokens, longer than the buffer.
MCSentences ==
    { GGA("1"), GGA("0"), GLL("V"), GSA(<<"3">>, Num),
      GSV("2", "1", "5", Four), GSV("2", "2", "5", <<Sat(<<"5">>)>>),
      RMC("A", <<"0", "4", "0", "7", "1", "1">>), RMC("A", <<"x", "4", "0", "7", "1", "1">>),
      VTG(<<"A">>), ZDA(E, <<"2", "0", "1", "1">>),
      <<"$", "G", "P", "\r", "\n">>,
      Line(<<Id("G", "G", "A")>> \o [i \in 1..40 |-> E]),
      Line(<<Id("G", "G", "A")>> \o [i \in 1..14 |-> Lat]) }

\* A receiver that announces nine satellites in three sentences.
MCSentencesOfNine ==
    { GSV("3", "1", "9", Four), GSV("3", "2", "9", Four), GSV("3", "3", "9", <<Sat(<<"9">>)>>) }

-----------------------------------------------------------------------------
(* RilReader: no option, a port, port 0 and a negative port, a device, an  *)
(* unknown option, a negative port with a device.                          *)

MCRilArgvs ==
    { <<>>, <<[opt |-> "p", port |-> 5]>>, <<[opt |-> "p", port |-> 0]>>,
      <<[opt |-> "p", port |-> -5]>>, <<[opt |-> "d", path |-> "/dev/tty"]>>,
      <<[opt |-> "?"]>>,
      <<[opt |-> "p", port |-> -5], [opt |-> "d", path |-> "/dev/tty"]>> }

-----------------------------------------------------------------------------
(* WifiConnect: the events of a supplicant that connects, loses the        *)
(* connection and scans.                                                   *)

MCEvents ==
    { <<"CTRL-EVENT-", "CONNECTED">>, <<"CTRL-EVENT-", "DIS", "CONNECTED">>,
      <<"CTRL-EVENT-", "SCAN-RESULTS">> }

-----------------------------------------------------------------------------
(* RecoverySocket.  Texts are bytes: Digit(4) is "4".                      *)

Digit(n) == <<48 + n>>
Name     == <<115>>         \* argv[0]

\* Every command with the right number of arguments, a progress of 50, of
\* 150 and of -1, messages of 0, 2, 4 and 5 bytes, a command that is no
\* number, one that is none of the six, and no command at all.
MCSockArgvs ==
    { <<Name>>, <<Name, Digit(0)>>, <<Name, Digit(4)>>, <<Name, Digit(3), Digit(1)>>,
      <<Name, Digit(1), <<53, 48>>, Digit(9)>>, <<Name, Digit(1), <<49, 53, 48>>, Digit(9)>>,
      <<Name, Digit(1), <<45, 49>>, Digit(9)>>,
      <<Name, Digit(2), <<65, 66>>>>, <<Name, Digit(2), <<>>>>,
      <<Name, Digit(2), <<65, 66, 67, 68>>>>, <<Name, Digit(2), <<65, 66, 67, 68, 69>>>>,
      <<Name, Digit(5), <<90>>>>, <<Name, <<114>>>>, <<Name, Digit(7)>> }

\* What the stack may hold where p_record comes to lie.
MCStack == {[i \in 1..12 |-> 0], [i \in 1..12 |-> 4]}

-----------------------------------------------------------------------------
(* Recovery: the commands of the main system, one of each branch of main,  *)
(* an intent with a wipe, and an option main does not know; the clients of *)
(* its socket send REBOOT and INSTALL.                                     *)

Flag(name)          == [name |-> name, optarg |-> ""]
Option(name, value) == [name |-> name, optarg |-> value]

MCCommands ==
    { <<Flag("wipe_data")>>, <<Flag("wipe_cache")>>,
      <<Option("update_package", "CACHE:ota.zip")>>,
      <<Option("send_intent", "done"), Flag("wipe_data")>>,
      <<Flag("socket_server")>>, <<Flag("set_encrypted_filesystem")>> }

MCRecArgvs == { <<Name, Digit(4)>>, <<Name, Digit(5), <<90>>>> }

\* The keys of a user at a menu: the first item; the next; up from the
\* first; the fourth and the eighth item, where the menus of eleven have
\* their answers; down past the last; back; a key that stands for item 1
\* and one for item 2; and a user who has not chosen yet.
Downs(n) == [i \in 1..n |-> HIGHLIGHT_DOWN] \o <<SELECT_ITEM>>
MCKeyRuns ==
    { <<SELECT_ITEM>>, Downs(1), <<HIGHLIGHT_UP, SELECT_ITEM>>, Downs(3), Downs(7), Downs(12),
      <<MENU_BACK>>, <<NO_ACTION, 1>>, <<2, SELECT_ITEM>>, <<HIGHLIGHT_DOWN>> }
MCRecStack == {[i \in 1..12 |-> 0]}

-----------------------------------------------------------------------------
(* UpdateScripts: a directory without scripts; with one; with a shorter    *)
(* one beside a file that is none; with more files that have "sh" in them  *)
(* than the tables have rows; with ".sh" before a script whose name takes  *)
(* two pointers; and that script alone.                                    *)

Dots     == <<<<".">>, <<".", ".">>>>
Sh(stem) == stem \o <<".", "s", "h">>
Update   == <<"u", "p", "d", "a", "t", "e">>

MCListings ==
    { Dots, Dots \o <<Sh(<<"a", "b">>)>>, <<Sh(<<"c">>), <<"l", "o", "g">>>>,
      <<<<"p", "u", "s", "h">>, Sh(<<"a", "b">>), Sh(<<"c">>) \o <<"~">>>>,
      <<Sh(<<>>), Sh(Update)>>, <<Sh(Update)>> }

-----------------------------------------------------------------------------
(* CloudAuth, with arrays of eight characters: a signature and its line    *)
(* end, one with a character to escape, one with a space, one whose        *)
(* encoding does not fit, one of a single character, one that fills the    *)
(* array; random numbers of two digits, of one and of none; with a memory  *)
(* of four bytes for the answers of the cloud, an answer without a body,   *)
(* one whose body fills the memory and one whose second part does not fit. *)

MCRaws ==
    { <<"a", "b", "\n">>, <<"a", "+", "\n">>, <<"7", " ", "b", "\n">>, <<"+", "/", "\n">>,
      <<"a">>, <<"a", "b", "7", "a", "b", "7", "a", "b">> }

MCRandoms == { <<"1", "2">>, <<"3">>, <<>> }
MCUids    == { <<"4", "2">> }
MCBodies  == { <<>>, <<3>>, <<2, 2>> }

-----------------------------------------------------------------------------
(* SendPdu, with a buf of twelve characters: a PDU of eight characters, one *)
(* that fills buf but for the NUL, one of the size of buf, a longer one,   *)
(* and command lines of seven and of nine arguments.                       *)

Pdu(ud) == <<<<"s">>, <<"1">>, <<"0">>, <<"9">>, <<"0">>, <<"0">>, <<>>, <<"2">>, ud>>

MCPduArgvs ==
    { Pdu(<<"C", "8">>), Pdu(<<"C", "8", "3", "2", "9">>),
      Pdu(<<"C", "8", "3", "2", "9", "B">>),
      Pdu(<<"C", "8", "3", "2", "9", "B", "F", "D">>),
      Front(Pdu(<<"C">>)), Pdu(<<"C">>) \o <<<<"0">>>> }

=============================================================================
