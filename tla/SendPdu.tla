------------------------------ MODULE SendPdu ------------------------------
(***************************************************************************)
(* sendPDU (rild/sendPDU.c): the test client that hands an SMS PDU to the  *)
(* debug socket of the RIL daemon.  main sends the number of arguments,    *)
(* then the length and the text of "11" and of the PDU, which args_to_buf  *)
(* puts together from the command line, and leaves with exit(-1) at the    *)
(* first send that fails or is short.  The socket is the environment.      *)
(***************************************************************************)
EXTENDS Integers, Sequences, SequencesExt

CONSTANTS
    PduArgvs,   \* the command lines, argv[0] first
    BufSize     \* bound: sizeof buf, 1024 in the source

VARIABLES
    status,     \* "start", "sending", "exit(-1)" or "return 0"
    argv,
    fd,         \* the socket is open
    wire        \* what the socket has taken, one entry a send

vars == <<status, argv, fd, wire>>

Init == status = "start" /\ argv = <<>> /\ fd = FALSE /\ wire = <<>>

NUL == "\\0"

\* What a send puts on the wire: an int, characters, or a part of either.
Number(n) == [int |-> n]
Text(t)   == [text |-> t]
Cut       == [cut |-> TRUE]

\* args_to_buf (mutant): buf is filled, the length is not returned.
args_to_buf_stale_len(args) ==
    LET text == FlattenSeq(SubSeq(args, 2, 9))
    IN  [len |-> 2, buf |-> SubSeq(text, 1, Min({Len(text), BufSize - 1})) \o <<NUL>>]

\* args_to_buf: snprintf puts as much of the eight arguments as fits and a
\* NUL into buf and returns the length of all of them.
args_to_buf(args) ==
    LET text == FlattenSeq(SubSeq(args, 2, 9))
    IN  [len |-> Len(text), buf |-> SubSeq(text, 1, Min({Len(text), BufSize - 1})) \o <<NUL>>]

\* The bytes send takes from an array: beyond its end, what the stack holds.
Bytes(array, len) == [i \in 1..len |-> IF i <= Len(array) THEN array[i] ELSE "?"]

\* What main sends, in order.
Sends(args) ==
    LET arg2 == args_to_buf(args)
    IN  <<Number(2), Number(2), Text(<<"1", "1">>), Number(arg2.len),
          Text(Bytes(arg2.buf, arg2.len))>>

error_check(args) == IF Len(args) = 9 THEN 0 ELSE -1

\* main up to its first send: error_check and socket_local_client.
main(args, connected) ==
    /\ status = "start" /\ argv' = args
    /\ fd' = (error_check(args) = 0 /\ connected)
    /\ status' = IF fd' THEN "sending" ELSE "exit(-1)"
    /\ UNCHANGED wire

\* One send of main with the test that follows it: all of it was taken, some
\* of it, or none.  The last one is followed by close and return 0.
send(taken) ==
    /\ status = "sending"
    /\ LET this == Sends(argv)[Len(wire) + 1]
       IN  wire' = CASE taken = "all"  -> Append(wire, this)
                     [] taken = "some" -> Append(wire, Cut)
                     [] taken = "none" -> wire
    /\ status' = CASE taken # "all"  -> "exit(-1)"
                   [] Len(wire') = 5 -> "return 0"
                   [] OTHER          -> "sending"
    /\ fd' = (status' = "sending")
    /\ UNCHANGED argv

Ended == status \in {"exit(-1)", "return 0"} /\ UNCHANGED vars

Next ==
    \/ \E args \in PduArgvs, connected \in BOOLEAN : main(args, connected)
    \/ \E taken \in {"all", "some", "none"} : send(taken)
    \/ Ended

Spec == Init /\ [][Next]_vars

-----------------------------------------------------------------------------
(* Properties *)

\* When main returns 0 the daemon has been sent two arguments, "11" and the
\* eight arguments of the command line in one text, each after its length:
\* for every command line whose text and NUL fit buf.  len is used for the
\* length of "11" and then for what args_to_buf returns.
SendsThePdu ==
    LET pdu == FlattenSeq(SubSeq(argv, 2, 9))
    IN  status = "return 0" /\ Len(pdu) < BufSize
            => wire = <<Number(2), Number(2), Text(<<"1", "1">>), Number(Len(pdu)), Text(pdu)>>

\* send is given bytes of buf: "char buf[1024]" holds what is sent.
SendsFromBuf ==
    \A i \in DOMAIN wire : "text" \in DOMAIN wire[i] => "?" \notin Range(wire[i].text)

=============================================================================
