--------------------------- MODULE RecoverySocket ---------------------------
(***************************************************************************)
(* The command socket of the recovery tool (socket_server.c) and its       *)
(* client (sendmessage.c).  init_server starts a thread that runs          *)
(* event_loop: it binds the socket "recovery", accepts one connection at a *)
(* time and hands every record recv returns to process_cmd.  sendmessage   *)
(* connects, sends one command and closes.                                 *)
(*                                                                         *)
(* A record is a sequence of bytes; an int is four of them, lowest first.  *)
(* The three buffers of 256 bytes (cmd in the client, p_record and message *)
(* in the server) have BUFFER bytes in the model.  The user interface is   *)
(* kept as the commands it was given, install_package as a step of its own *)
(* that another thread can overlap.                                        *)
(***************************************************************************)
EXTENDS Integers, Sequences, FiniteSets, SequencesExt

CONSTANTS
    BUFFER,         \* sizeof cmd, p_record, message and fileName (256)
    Argvs,          \* the command lines sendmessage may be started with
    MaxClients,     \* bound: runs of sendmessage
    Stack,          \* what p_record may hold before the first recv
    RecvMayFail,    \* recv may return -1
    SplitAt         \* where the stream may cut a record in two

Byte == 0..255

ASSUME /\ BUFFER \in Nat /\ BUFFER >= 12 /\ MaxClients \in Nat
       /\ \A argv \in Argvs : argv \in Seq(Seq(Byte))
       /\ \A s \in Stack : s \in Seq(Byte) /\ Len(s) = BUFFER
       /\ RecvMayFail \in BOOLEAN /\ SplitAt \subseteq 1..BUFFER

BEGIN_ANIMATION == 0
SET_PROGRESS    == 1
PRINT_MESSAGE   == 2
RESET_PROGRESS  == 3
REBOOT          == 4
INSTALL         == 5
NONE            == -1       \* process_cmd did nothing

BACKLOG == 4        \* listen(s_fdListen, 4)
\* The size_t that -1 becomes.  It stands for 2^32 - 1, above every int; the
\* number is the largest the model checker counts to.
SIZE_MAX == 2147483647

VARIABLES
    server,         \* where the thread of event_loop is
    s_fdListen, s_fdCommand,
    p_record,       \* event_loop's buffer
    backlog,        \* connections waiting for accept: what each has to deliver
    wire,           \* what the accepted connection has still to deliver
    executed,       \* history: what process_cmd did, in order
    sent,           \* history: the commands sendmessage sent, in order
    clients,        \* history: runs of sendmessage so far
    rebooted        \* reboot() was called

sockVars == <<server, s_fdListen, s_fdCommand, p_record, backlog, wire, executed, sent,
              clients, rebooted>>

SockInit ==
    /\ server = "none" /\ s_fdListen = -1 /\ s_fdCommand = -1
    /\ p_record \in Stack
    /\ backlog = <<>> /\ wire = <<>>
    /\ executed = <<>> /\ sent = <<>> /\ clients = 0 /\ rebooted = FALSE

-----------------------------------------------------------------------------
(* Ints and texts.                                                         *)

\* The four bytes of an int, and the int of four bytes.
Bytes(n) == [k \in 1..4 |-> (n \div 256^(k - 1)) % 256]

IntAt(buffer, i) ==
    LET top == buffer[4*i + 4]
    IN  buffer[4*i + 1] + 256 * buffer[4*i + 2] + 65536 * buffer[4*i + 3]
            + 16777216 * (IF top >= 128 THEN top - 256 ELSE top)

\* atoi: the digits a text starts with, behind an optional '-'.
IsDigit(c) == c \in 48..57
LeadingDigits(text) ==
    SubSeq(text, 1, CHOOSE k \in 0..Len(text) :
                        /\ \A i \in 1..k : IsDigit(text[i])
                        /\ k < Len(text) => ~IsDigit(text[k + 1]))
Value(digits) == FoldLeft(LAMBDA v, c : 10 * v + (c - 48), 0, digits)
atoi(text) ==
    IF text # <<>> /\ text[1] = 45 THEN 0 - Value(LeadingDigits(Tail(text)))
    ELSE Value(LeadingDigits(text))

-----------------------------------------------------------------------------
(* sendmessage.                                                            *)

\* argv[0] is the program's name: argc is Len(argv), argv[i] is argv[i + 1].
error_check(argv) ==
    LET argc == Len(argv)
    IN  \/ argc < 2
        \/ LET option == atoi(argv[2])
           IN  ~ \/ option \in {BEGIN_ANIMATION, RESET_PROGRESS, REBOOT} /\ argc = 2
                 \/ option \in {PRINT_MESSAGE, INSTALL} /\ argc = 3
                 \/ option = SET_PROGRESS /\ argc = 4

\* The bytes of cmd (mutant): the time before the progress.
Command_time_first(argv) ==
    LET option == atoi(argv[2])
    IN  Bytes(option) \o
        CASE option = SET_PROGRESS -> Bytes(atoi(argv[4])) \o Bytes(atoi(argv[3]))
          [] option \in {PRINT_MESSAGE, INSTALL} -> Bytes(Len(argv[3])) \o argv[3]
          [] OTHER -> <<>>

\* Lines 88-107: the bytes main puts into cmd, and len.
Command(argv) ==
    LET option == atoi(argv[2])
    IN  Bytes(option) \o
        CASE option = SET_PROGRESS -> Bytes(atoi(argv[3])) \o Bytes(atoi(argv[4]))
          [] option \in {PRINT_MESSAGE, INSTALL} -> Bytes(Len(argv[3])) \o argv[3]
          [] OTHER -> <<>>

\* A run of sendmessage: the usage, no connection (nobody listens or the
\* backlog is full), or the command sent and the connection closed.  A
\* command longer than cmd is written and sent all the same.
sendmessage(argv) ==
    /\ clients < MaxClients /\ ~rebooted
    /\ clients' = clients + 1
    /\ IF ~error_check(argv) /\ s_fdListen >= 0 /\ server # "none" /\ Len(backlog) < BACKLOG
       THEN backlog' = Append(backlog, Command(argv)) /\ sent' = Append(sent, argv)
       ELSE UNCHANGED <<backlog, sent>>
    /\ UNCHANGED <<server, s_fdListen, s_fdCommand, p_record, wire, executed, rebooted>>

-----------------------------------------------------------------------------
(* The server.                                                             *)

\* pthread_create returns an error number, never one below 0: init_server
\* returns INSTALL_SUCCESS with or without a thread.
init_server(created) ==
    /\ server = "none"
    /\ server' = IF created THEN "event_loop" ELSE "none"
    /\ UNCHANGED <<s_fdListen, s_fdCommand, p_record, backlog, wire, executed, sent,
                   clients, rebooted>>

\* process_cmd's test of len against the record: len > buflen - 2 * sizeof(int),
\* which nothing is when buflen is SIZE_MAX.
TooLong_never(len, buflen) == FALSE
TooLong(len, buflen) == buflen < SIZE_MAX /\ len > buflen - 8

\* What process_cmd does with a record: the command it runs with its
\* arguments, or NONE.  The test for a record shorter than an int has an
\* empty body; message and fileName are memcpy'd from behind the two ints.
process_cmd(buffer, buflen) ==
    LET int_buffer(i) == IntAt(buffer, i)
        \* the bytes memcpy takes from the record; what it reads behind it is not kept
        text(n) == SubSeq(buffer, 9, IF 8 + n <= BUFFER THEN 8 + n ELSE BUFFER)
        none == [cmd |-> NONE]
    IN  CASE int_buffer(0) = BEGIN_ANIMATION -> [cmd |-> BEGIN_ANIMATION]
          [] int_buffer(0) = SET_PROGRESS ->
                 IF buflen < 12 \/ int_buffer(1) < 0 \/ int_buffer(1) > 100 THEN none
                 ELSE [cmd |-> SET_PROGRESS, progress |-> int_buffer(1),
                       time |-> int_buffer(2)]
          [] int_buffer(0) \in {PRINT_MESSAGE, INSTALL} ->
                 IF buflen < 8 \/ int_buffer(1) < 0 \/ TooLong(int_buffer(1), buflen) THEN none
                 ELSE [cmd |-> int_buffer(0), len |-> int_buffer(1),
                       text |-> text(int_buffer(1))]
          [] int_buffer(0) = RESET_PROGRESS -> [cmd |-> RESET_PROGRESS]
          [] int_buffer(0) = REBOOT -> [cmd |-> REBOOT]
          [] OTHER -> none

\* socket_local_server and listen: without the socket the process exits,
\* without listen the thread returns.
event_loop(bound, listening) ==
    /\ server = "event_loop" /\ ~rebooted
    /\ s_fdListen' = IF bound THEN 3 ELSE s_fdListen
    /\ server' = CASE ~bound -> "exit(-1)" [] ~listening -> "returned" [] OTHER -> "accept"
    /\ UNCHANGED <<s_fdCommand, p_record, backlog, wire, executed, sent, clients, rebooted>>

\* accept: the next connection, or an error and the thread returns, the
\* socket still listening.
accept(ok) ==
    /\ server = "accept" /\ ~rebooted
    /\ IF ok
       THEN /\ backlog # <<>>
            /\ s_fdCommand' = 4 /\ wire' = Head(backlog) /\ backlog' = Tail(backlog)
            /\ server' = "recv"
       ELSE server' = "returned" /\ UNCHANGED <<s_fdCommand, wire, backlog>>
    /\ UNCHANGED <<s_fdListen, p_record, executed, sent, clients, rebooted>>

\* One turn of the inner loop.  recv returns n bytes of what the connection
\* has to deliver, 0 at its end, -1 for an error; recordlen is a size_t, so
\* -1 is SIZE_MAX and only 0 leaves the loop and closes the connection.
recv(n) ==
    LET recordlen == IF n < 0 THEN SIZE_MAX ELSE n
        record    == IF n <= 0 THEN p_record
                     ELSE SubSeq(wire, 1, n) \o SubSeq(p_record, n + 1, BUFFER)
        todo      == process_cmd(record, recordlen)
    IN  /\ server = "recv" /\ ~rebooted
        /\ \/ n = -1 /\ RecvMayFail
           \/ n = Len(wire) /\ n <= BUFFER
           \/ n = BUFFER /\ n < Len(wire)
           \/ n \in SplitAt /\ n < Len(wire)
        /\ IF n <= 0 THEN UNCHANGED <<p_record, wire>>
           ELSE p_record' = record /\ wire' = SubSeq(wire, n + 1, Len(wire))
        /\ IF recordlen = 0
           THEN s_fdCommand' = -1 /\ server' = "accept" /\ UNCHANGED <<executed, rebooted>>
           ELSE /\ executed' = IF todo.cmd = NONE THEN executed ELSE Append(executed, todo)
                /\ rebooted' = (todo.cmd = REBOOT)
                /\ server' = IF todo.cmd = INSTALL THEN "install_package" ELSE "recv"
                /\ UNCHANGED s_fdCommand
        /\ UNCHANGED <<s_fdListen, backlog, sent, clients>>

\* install_package returns; its status is printed and forgotten.
install_package ==
    /\ server = "install_package" /\ ~rebooted
    /\ server' = "recv"
    /\ UNCHANGED <<s_fdListen, s_fdCommand, p_record, backlog, wire, executed, sent,
                   clients, rebooted>>

\* Nothing left to do: no thread, or no client to come.
SockIdle ==
    /\ \/ rebooted
       \/ server \in {"none", "exit(-1)", "returned"} /\ clients = MaxClients
       \/ server = "accept" /\ backlog = <<>> /\ clients = MaxClients
    /\ UNCHANGED sockVars

SockNext ==
    \/ \E created \in BOOLEAN : init_server(created)
    \/ \E bound, listening \in BOOLEAN : event_loop(bound, listening)
    \/ \E ok \in BOOLEAN : accept(ok)
    \/ \E n \in -1..BUFFER : recv(n)
    \/ install_package
    \/ \E argv \in Argvs : sendmessage(argv)
    \/ SockIdle

SockSpec == SockInit /\ [][SockNext]_sockVars

-----------------------------------------------------------------------------
(* Properties.                                                             *)

\* What sendmessage's usage promises of a command line: the command and its
\* arguments, when the progress is one of 0 ~ 100 and the command fits cmd.
Promised(argv) ==
    LET option == atoi(argv[2])
    IN  CASE option = SET_PROGRESS ->
                 [cmd |-> option, progress |-> atoi(argv[3]), time |-> atoi(argv[4])]
          [] option \in {PRINT_MESSAGE, INSTALL} ->
                 [cmd |-> option, len |-> Len(argv[3]), text |-> argv[3]]
          [] OTHER -> [cmd |-> option]

InContract(argv) ==
    /\ atoi(argv[2]) = SET_PROGRESS => atoi(argv[3]) \in 0..100
    /\ Len(Command(argv)) <= BUFFER

\* sendmessage and process_cmd: the commands the server runs are the
\* commands the clients sent within the contract, each once, in the order
\* of their connections, with the arguments of the command line; when all
\* is delivered none is missing.
RunsWhatWasSent ==
    LET promised == [i \in 1..Len(SelectSeq(sent, InContract)) |->
                         Promised(SelectSeq(sent, InContract)[i])]
        cut == SelectInSeq(promised, LAMBDA c : c.cmd = REBOOT)
        due == IF cut = 0 THEN promised ELSE SubSeq(promised, 1, cut)
    IN  /\ IsPrefix(executed, due)
        /\ backlog = <<>> /\ wire = <<>> /\ server = "accept" => executed = due

\* process_cmd's memcpy into message and fileName: the bytes copied lie in
\* the record and fit the destination.
CopyStaysInTheBuffers ==
    \A i \in DOMAIN executed :
        executed[i].cmd \in {PRINT_MESSAGE, INSTALL} => 8 + executed[i].len <= BUFFER

=============================================================================
