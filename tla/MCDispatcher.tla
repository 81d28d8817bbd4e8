---------------------------- MODULE MCDispatcher ----------------------------
(* Dispatcher instantiated for TLC. *)
EXTENDS Dispatcher

MCChannels == {0, 1}

MCPrefixes == {"+CGSN:"}

Shape(t, p, pdu, need) ==
    [type |-> t, responsePrefix |-> p, smspdu |-> pdu, needResponse |-> need]

\* requestRadioPower style: one synchronous command without an answer line.
MCSyncShapes == {Shape("NO_RESULT", NULL, NULL, 0)}

\* onRequest copies prefix and PDU into the session, so neither is NULL.
NoResult == Shape("NO_RESULT", "", "", 1)
OneLine == Shape("SINGLELINE", "+CGSN:", "", 1)

MCAsyncShapes == {NoResult, OneLine}

Request(flag, c, sh, cb, then) ==
    [continue_flag |-> flag, channelID |-> c, shape |-> sh, callback |-> cb,
     then |-> then]

\* Channel 0 takes every kind of request, channel 1 a plain asynchronous one.
MCRequests ==
    { Request(1, 0, NoResult, "callback_Default", NULL),
      Request(1, 0, NoResult, "callback_Chain", OneLine),
      Request(2, 0, Shape("NO_RESULT", NULL, NULL, 0), NULL, NULL),
      Request(0, 0, NULL, NULL, NULL),
      Request(1, 1, NoResult, "callback_Default", NULL) }

\* One unsolicited line, of a kind no command's answer contains.
MCUnsolLines == {Line("RING", "", 0, 0)}

\* Where writes may fail: the sessions of one channel.
MCRequestsAsync ==
    {rq \in MCRequests : rq.continue_flag = 1 /\ rq.channelID = 0}

=============================================================================
