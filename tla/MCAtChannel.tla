---------------------------- MODULE MCAtChannel ----------------------------
(***************************************************************************)
(* AtChannel for TLC: two channels, and the command shapes the RIL really  *)
(* issues (ril-mm.c, ril-ps.c, ril-msg.c and the session table).           *)
(***************************************************************************)
EXTENDS AtChannel

\* BROWNSTONE_CP numbering is 0 for everything; with two channels the run
\* also has a channel that is neither the data nor the unsolicited one.
MCChannels == {0, 1}

MCPrefixes     == {"+CREG:", "+CGDCONT:"}
MCCallPrefixes == {}

Shape(t, p, pdu, need) ==
    [type |-> t, responsePrefix |-> p, smspdu |-> pdu, needResponse |-> need]

\* at_send_command_sync(.., "AT+CREG=1", NO_RESULT, NULL, NULL, NULL),
\* (.., "AT+CREG?", SINGLELINE, "+CREG:", NULL, &p_response),
\* (.., "AT+CGDCONT?", MULTILINE, "+CGDCONT:", NULL, &p_response)
MCSyncShapes ==
    {Shape("NO_RESULT", NULL, NULL, 0),
     Shape("SINGLELINE", "+CREG:", NULL, 1),
     Shape("MULTILINE", "+CGDCONT:", NULL, 1)}

\* Sessions always pass their own prefix and PDU buffers and needResponse 1.
MCAsyncShapes ==
    {Shape("NO_RESULT", "", "", 1),
     Shape("MULTILINE", "+CGDCONT:", "", 1),
     Shape("SINGLELINE", "", "pdu", 1)}

\* +CREG: n is sent unsolicited as well as in answer to AT+CREG?.
MCUnsolLines ==
    {Line("PFX", "+CREG:", 0, 0), Line("RING", "", 0, 0),
     Line("SMS", "", 0, 0)}

\* The liveness run keeps the unsolicited line that competes with an answer.
MCUnsolLinesLive == {Line("PFX", "+CREG:", 0, 0)}
=============================================================================
