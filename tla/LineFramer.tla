----------------------------- MODULE LineFramer -----------------------------
(***************************************************************************)
(* The line framer of atchannel.c: the reader thread's select loop, and    *)
(* readChannel, findNextEOL and getline, which turn the bytes of each      *)
(* channel's tty into lines.  Every channel has a buffer of                *)
(* MAX_AT_RESPONSE + 1 bytes and a cursor into it; the buffer keeps what   *)
(* earlier reads left behind, which is why it is modelled byte by byte.    *)
(* The struct has padding between the buffer and the cursor; getline's     *)
(* cursor can reach its first byte, so the model has it as index           *)
(* MAX_AT_RESPONSE + 1, which nothing writes and static storage makes NUL. *)
(*                                                                         *)
(* The bytes are abstracted to what the code tells apart: NUL, one EOL     *)
(* byte standing for both '\r' and '\n' (every test in the code treats     *)
(* them alike), the two bytes of the SMS prompt, and the letters of the    *)
(* texts the modem sends.  What is done with a line (processLine) is in    *)
(* module AtChannel; here a line returned by getline is appended to got.   *)
(***************************************************************************)
EXTENDS Integers, Sequences, SequencesExt

CONSTANTS
    Channels,           \* channel ids, 0 .. COMMAND_CHANNEL_NUMBER - 1
    MAX_AT_RESPONSE,    \* data bytes a buffer holds (0x1000 in marvell-ril.h)
    Texts,              \* the texts of the lines the modem may send
    SmsTexts,           \* those that isSMSUnsolicited recognises
    MaxLines            \* bound: lines the modem sends on one channel

NUL    == "NUL"
EOL    == "EOL"
Prompt == <<">", " ">>
NoEOL  == -1            \* findNextEOL's NULL

Letters == UNION {Range(t) : t \in Texts}
Chars   == Letters \union {NUL, EOL, ">", " "}
Indexes == 0..MAX_AT_RESPONSE + 1

ASSUME /\ Channels \subseteq Nat /\ MAX_AT_RESPONSE \in Nat \ {0, 1}
       /\ SmsTexts \subseteq Texts /\ Prompt \notin SmsTexts
       /\ \A t \in Texts : t # <<>> /\ Range(t) \cap {NUL, EOL} = {}
       /\ \A t \in Texts \ {Prompt} : Range(t) \cap Range(Prompt) = {}

VARIABLES
    ATBuffer,       \* ATBuffer[c][i]: byte i of channels[c].ATBuffer
    ATBufferCur,    \* channels[c].ATBufferCur, as an index
    reader,         \* the reader thread: where it is, and readChannel's p_read
    readset,        \* channels select reported and the loop has yet to serve
    wire,           \* bytes that arrived on the tty and were not read yet
    flight,         \* bytes the modem has sent that have not arrived yet
    prompted,       \* the modem sent the prompt and waits for the PDU
    eof,            \* the channels whose tty is at end of file
    sent,           \* history: the texts the modem sent, in order
    got             \* history: the lines getline returned, in order

bufVars   == <<ATBuffer, ATBufferCur>>
modemVars == <<wire, flight, prompted, eof, sent>>
vars      == <<bufVars, reader, readset, modemVars, got>>

-----------------------------------------------------------------------------
(* The C string operations on a buffer b, from index i.                    *)

\* The first index from i on whose byte is in stop.
Scan(b, i, stop) == Min({j \in i..MAX_AT_RESPONSE + 1 : b[j] \in stop})

strlen(b, i) == Scan(b, i, {NUL}) - i

\* "skip over leading newlines"
SkipNewlines(b, i) == Scan(b, i, Chars \ {EOL})

findNextEOL_NoPrompt(b, i) ==
    LET j == Scan(b, i, {NUL, EOL}) IN IF b[j] = NUL THEN NoEOL ELSE j

findNextEOL(b, i) ==
    IF b[i] = ">" /\ b[i + 1] = " " /\ b[i + 2] = NUL
    THEN i + 2
    ELSE LET j == Scan(b, i, {NUL, EOL}) IN IF b[j] = NUL THEN NoEOL ELSE j

\* read(fd, p_read, ...) followed by p_read[count] = '\0'.
Put(b, from, bytes) ==
    [i \in Indexes |->
        IF i < from \/ i > from + Len(bytes) THEN b[i]
        ELSE IF i = from + Len(bytes) THEN NUL ELSE bytes[i - from + 1]]

MovedUp_Short(b, cur) ==
    [i \in Indexes |-> IF i < strlen(b, cur) THEN b[cur + i] ELSE b[i]]

\* getline's memmove of a partial line, terminator included, to the start.
MovedUp(b, cur) ==
    [i \in Indexes |-> IF i <= strlen(b, cur) THEN b[cur + i] ELSE b[i]]

Rewound_Always(b, cur) ==
    [buf |-> [b EXCEPT ![0] = NUL], cur |-> 0, p_read |-> 0]

\* The head of readChannel: an empty buffer is rewound, a partial line is
\* read on from its end (counted from the start of the buffer).
Rewound(b, cur) ==
    IF b[cur] = NUL
    THEN [buf |-> [b EXCEPT ![0] = NUL], cur |-> 0, p_read |-> 0]
    ELSE [buf |-> b, cur |-> cur, p_read |-> strlen(b, cur)]

Ditched_Never(p_read) == FALSE

\* "Input line exceeded buffer": the buffer is full and holds no line.
Ditched(p_read) == MAX_AT_RESPONSE - p_read = 0

Room_Whole(from) == MAX_AT_RESPONSE

\* The size readChannel passes to read().
Room(from) == MAX_AT_RESPONSE - from

-----------------------------------------------------------------------------
Init ==
    /\ ATBuffer    = [c \in Channels |-> [i \in Indexes |-> NUL]]
    /\ ATBufferCur = [c \in Channels |-> 0]
    /\ reader      = [pc |-> "loop", channelID |-> Min(Channels), p_read |-> 0, sms |-> FALSE]
    /\ readset     = {}
    /\ wire        = [c \in Channels |-> <<>>]
    /\ flight      = [c \in Channels |-> <<>>]
    /\ prompted    = [c \in Channels |-> FALSE]
    /\ eof         = {}
    /\ sent        = [c \in Channels |-> <<>>]
    /\ got         = [c \in Channels |-> <<>>]

Enter(c, st, pc) ==
    /\ ATBuffer'    = [ATBuffer EXCEPT ![c] = st.buf]
    /\ ATBufferCur' = [ATBufferCur EXCEPT ![c] = st.cur]
    /\ reader'      = [reader EXCEPT !.pc = pc, !.channelID = c,
                                     !.p_read = st.p_read]

\* read() on the tty returns at once: with bytes, or with 0 at end of file.
Readable(c) == wire[c] # <<>> \/ c \in eof

\* readerLoop: the for loop has served every channel of the last readset;
\* select returns the channels on which a read would not block.
select ==
    /\ reader.pc = "loop" /\ readset = {}
    /\ readset' = {c \in Channels : Readable(c)}
    /\ readset' # {}
    /\ UNCHANGED <<bufVars, reader, modemVars, got>>

\* readerLoop's for loop calls channelReader, which begins with readChannel.
channelReader(c) ==
    /\ reader.pc = "loop" /\ readset # {} /\ c = Min(readset)
    /\ readset' = readset \ {c}
    /\ Enter(c, Rewound(ATBuffer[c], ATBufferCur[c]), "read")
    /\ UNCHANGED <<modemVars, got>>

\* One turn of readChannel's loop: the overflow test, the blocking read of
\* what has arrived, and the test for a complete line.  A read that returns
\* no bytes, at end of file, ends readChannel with what the overflow test
\* left of the buffer.
readChannel(c) ==
    /\ reader.pc = "read" /\ reader.channelID = c
    /\ LET ditch == Ditched(reader.p_read)
           from  == IF ditch THEN 0 ELSE reader.p_read
           cur0  == IF ditch THEN 0 ELSE ATBufferCur[c]
           buf0  == IF ditch THEN [ATBuffer[c] EXCEPT ![0] = NUL] ELSE ATBuffer[c]
           count == Min({Len(wire[c]), Room(from)})
           buf   == IF count > 0 THEN Put(buf0, from, SubSeq(wire[c], 1, count)) ELSE buf0
           cur   == IF count > 0 THEN SkipNewlines(buf, cur0) ELSE cur0
       IN  /\ Readable(c) \/ Room(from) = 0
           /\ wire' = [wire EXCEPT ![c] = SubSeq(@, count + 1, Len(@))]
           /\ Enter(c, [buf |-> buf, cur |-> cur, p_read |-> from + count],
                    IF count > 0 /\ findNextEOL(buf, cur) = NoEOL
                    THEN "read" ELSE "getline")
    /\ UNCHANGED <<readset, flight, prompted, eof, sent, got>>

\* getline returns NULL: the buffer is consumed, or holds a partial line that
\* is moved up.  channelReader then returns, or, while it waits for the
\* second line of an SMS indication, calls readChannel again.
getline_NULL(c) ==
    /\ reader.pc = "getline" /\ reader.channelID = c
    /\ LET b       == ATBuffer[c]
           cur     == SkipNewlines(b, ATBufferCur[c])
           partial == b[ATBufferCur[c]] # NUL
           buf     == IF partial THEN MovedUp(b, cur) ELSE b
           cur1    == IF partial THEN 0 ELSE ATBufferCur[c]
       IN  /\ partial => findNextEOL(b, cur) = NoEOL
           /\ IF reader.sms
              THEN Enter(c, Rewound(buf, cur1), "read")
              ELSE Enter(c, [buf |-> buf, cur |-> cur1, p_read |-> reader.p_read],
                         "loop")
    /\ UNCHANGED <<readset, modemVars, got>>

\* getline returns a line: a NUL is put over its end and the cursor moves
\* past it and the newlines that follow.
getline_line(c) ==
    /\ reader.pc = "getline" /\ reader.channelID = c
    /\ ATBuffer[c][ATBufferCur[c]] # NUL
    /\ LET b     == ATBuffer[c]
           cur   == SkipNewlines(b, ATBufferCur[c])
           p_eol == findNextEOL(b, cur)
           buf   == [b EXCEPT ![p_eol] = NUL]
           line  == [k \in 1..(p_eol - cur) |-> b[cur + k - 1]]
       IN  /\ p_eol # NoEOL
           /\ ATBuffer' = [ATBuffer EXCEPT ![c] = buf]
           /\ ATBufferCur' = [ATBufferCur EXCEPT ![c] = SkipNewlines(buf, p_eol + 1)]
           /\ reader' = [reader EXCEPT !.sms = ~@ /\ line \in SmsTexts]
           /\ got' = [got EXCEPT ![c] = Append(@, line)]
           /\ prompted' = [prompted EXCEPT ![c] = @ /\ line # Prompt]
    /\ UNCHANGED <<readset, wire, flight, eof, sent>>

ReaderThread ==
    \/ select
    \/ \E c \in Channels :
          channelReader(c) \/ readChannel(c) \/ getline_NULL(c) \/ getline_line(c)

-----------------------------------------------------------------------------
(* The modem and the tty: the environment.                                 *)

\* A line goes out as \r\n text \r\n, the prompt as \r\n> with no end.
Framed(t) == <<EOL, EOL>> \o t \o (IF t = Prompt THEN <<>> ELSE <<EOL, EOL>>)

\* After the prompt the modem waits for the PDU, which is written when the
\* prompt has been handed on.
ModemSends(c, t) ==
    /\ Len(sent[c]) < MaxLines /\ ~prompted[c] /\ c \notin eof
    /\ sent' = [sent EXCEPT ![c] = Append(@, t)]
    /\ flight' = [flight EXCEPT ![c] = @ \o Framed(t)]
    /\ prompted' = [prompted EXCEPT ![c] = t = Prompt]
    /\ UNCHANGED <<bufVars, reader, readset, wire, eof, got>>

\* Some of the bytes under way arrive: a read may see any part of a line.
Arrives(c) ==
    \E k \in 1..Len(flight[c]) :
        /\ wire' = [wire EXCEPT ![c] = @ \o SubSeq(flight[c], 1, k)]
        /\ flight' = [flight EXCEPT ![c] = SubSeq(@, k + 1, Len(@))]
        /\ UNCHANGED <<bufVars, reader, readset, prompted, eof, sent, got>>

\* The modem's side of the tty is closed, behind what it has sent: the reads
\* that find no byte return 0 from now on.
HangsUp(c) ==
    /\ c \notin eof /\ flight[c] = <<>>
    /\ eof' = eof \union {c}
    /\ UNCHANGED <<bufVars, reader, readset, wire, flight, prompted, sent, got>>

\* readChannel sits in read() on a channel whose modem has nothing under way.
Blocked ==
    /\ reader.pc = "read"
    /\ ~Readable(reader.channelID) /\ flight[reader.channelID] = <<>>

\* Nothing is under way on any channel and the reader waits, in select or
\* in read.
Silent ==
    /\ \A c \in Channels : ~Readable(c) /\ flight[c] = <<>>
    /\ reader.pc = "read" \/ (reader.pc = "loop" /\ readset = {})

\* The reader waits for a modem that says nothing.
Waiting == (Blocked \/ Silent) /\ UNCHANGED vars

Next ==
    \/ ReaderThread
    \/ \E c \in Channels : Arrives(c) \/ HangsUp(c) \/ \E t \in Texts : ModemSends(c, t)
    \/ Waiting

\* The reader thread runs when it can; bytes under way arrive.  Nothing
\* makes the modem send.
Fairness ==
    /\ WF_vars(ReaderThread)
    /\ \A c \in Channels : WF_vars(Arrives(c))

Spec == Init /\ [][Next]_vars /\ Fairness

-----------------------------------------------------------------------------
\* The type invariant.  Its p_read says that readChannel never asks read()
\* to write behind the buffer (the size it passes is the room left).
FramerTypeOK ==
    /\ ATBuffer \in [Channels -> [Indexes -> Chars]]
    /\ ATBufferCur \in [Channels -> 0..MAX_AT_RESPONSE + 1]
    /\ reader \in [pc : {"loop", "read", "getline"}, channelID : Channels,
                   p_read : 0..MAX_AT_RESPONSE, sms : BOOLEAN]
    /\ readset \subseteq Channels
    /\ \A c \in Channels :
          /\ wire[c] \in Seq(Chars) /\ flight[c] \in Seq(Chars)
          /\ sent[c] \in Seq(Texts) /\ Len(sent[c]) <= MaxLines
          /\ got[c] \in Seq(Seq(Chars))
    /\ prompted \in [Channels -> BOOLEAN] /\ eof \subseteq Channels

\* A channel whose modem has sent neither the prompt nor a line that does
\* not fit the buffer.
Plain(c) ==
    \A i \in DOMAIN sent[c] :
        sent[c][i] # Prompt /\ Len(Framed(sent[c][i])) <= MAX_AT_RESPONSE

\* Whatever way the bytes of a channel are cut into reads, getline returns
\* the lines the modem sent, each once, in order and unchanged: no line is
\* lost or split by readChannel's carrying a partial line over, and no byte
\* an earlier read left in the buffer is returned again.
LinesAreStreamLines ==
    \A c \in Channels :
        /\ IsPrefix(got[c], sent[c])
        /\ Silent => got[c] = sent[c]

\* The same, where it can be expected of the code as it is: on a plain
\* channel.
PlainLinesAreStreamLines ==
    \A c \in Channels : Plain(c) =>
        /\ IsPrefix(got[c], sent[c])
        /\ Silent => got[c] = sent[c]

\* readerLoop serves all channels from one thread, so it may not wait for
\* one channel while another has bytes: readChannel never sits in read() on
\* a channel whose modem has nothing under way while the tty of another
\* channel holds bytes.
NoBlockingWhileOtherReady ==
    ~ /\ Blocked
      /\ \E c \in Channels \ {reader.channelID} : wire[c] # <<>>

\* The prompt has no line end, and the modem sends nothing after it until
\* it has the PDU: findNextEOL's special case makes getline hand the prompt
\* on although no end of line will come.
PromptIsHandedOn ==
    \A c \in Channels : prompted[c] ~> ~prompted[c]

\* The bytes that arrived on a tty are read, however long the line: when
\* the buffer is full without a line, readChannel ditches it and reads on.
WireIsDrained ==
    \A c \in Channels : (wire[c] # <<>>) ~> (wire[c] = <<>>)

\* Ditching the buffer loses bytes of the line that did not fit and of no
\* other: what getline returns afterwards is a line the modem sent or a
\* piece of one, never bytes of two lines joined or bytes of an earlier
\* read, and the lines come in the order they were sent (on a channel that
\* has not carried the prompt).
DitchLosesButNeverInvents ==
    \A c \in Channels : Prompt \notin Range(sent[c]) =>
        \E at \in [DOMAIN got[c] -> DOMAIN sent[c]] :
            /\ \A i \in DOMAIN got[c] : got[c][i] \in SubSeqs(sent[c][at[i]])
            /\ \A i, j \in DOMAIN got[c] : i < j => at[i] <= at[j]

=============================================================================
