------------------------------ MODULE RilReader ------------------------------
(***************************************************************************)
(* The AT reader daemon of reference-ril.c: main reads its options and     *)
(* runs mainLoop, which opens the AT interface, starts the channel's       *)
(* reader thread with at_open and sleeps in waitForClose until the reader  *)
(* has closed the channel, then opens it again.                            *)
(*                                                                         *)
(* The AT channel library (at_open, at_close, the reader thread) is the    *)
(* environment: of it the model keeps the descriptor it reads (s_fd), the  *)
(* descriptors the process holds, and one reader thread for each at_open,  *)
(* which at end of file calls onATReaderClosed.  Nothing in this program   *)
(* sends a command, so onATTimeout is never called.                        *)
(***************************************************************************)
EXTENDS Integers, Sequences, FiniteSets, SequencesExt

CONSTANTS
    Argvs,          \* the command lines main may be started with
    MaxOpens        \* bound: at_open calls of one run of the daemon

NULL == "NULL"

\* What getopt makes of one argument with the option string "p:d:": the
\* option letter and its argument, '?' for a letter it does not know.
Options == [opt : {"p"}, port : Int] \union [opt : {"d"}, path : {"/dev/tty"}]
               \union [opt : {"?"}]

ASSUME /\ MaxOpens \in Nat \ {0}
       /\ \A argv \in Argvs : argv \in Seq(Options)

Opens == 1..MaxOpens

VARIABLES
    pc,                 \* where the main thread is
    s_port, s_device_path, s_device_socket, s_closed,
    s_fd,               \* the descriptor the AT channel reads, or -1
    held,               \* the descriptors the process holds
    opened,             \* history: descriptors opened so far
    reader              \* the reader thread of each at_open

vars == <<pc, s_port, s_device_path, s_device_socket, s_closed, s_fd, held, opened,
          reader>>

Init ==
    /\ pc = "main"
    /\ s_port = -1 /\ s_device_path = NULL /\ s_device_socket = 0 /\ s_closed = 0
    /\ s_fd = -1 /\ held = {} /\ opened = 0
    /\ reader = [g \in Opens |-> "none"]

-----------------------------------------------------------------------------
(* main.                                                                   *)

\* The loop of lines 145-169 over the arguments: the settings they leave,
\* or usage's exit at the first port 0 or unknown option.
RECURSIVE ReadOptions(_, _)
ReadOptions(argv, s) ==
    CASE argv = <<>>          -> s
      [] s.usage              -> s
      [] Head(argv).opt = "p" ->
             ReadOptions(Tail(argv), [s EXCEPT !.port = Head(argv).port,
                                               !.usage = Head(argv).port = 0])
      [] Head(argv).opt = "d" ->
             ReadOptions(Tail(argv), [s EXCEPT !.path = Head(argv).path])
      [] OTHER                -> [s EXCEPT !.usage = TRUE]

main(argv) ==
    LET s == ReadOptions(argv, [port |-> s_port, path |-> s_device_path, usage |-> FALSE])
    IN  /\ pc = "main"
        /\ s_port' = s.port /\ s_device_path' = s.path
        /\ pc' = IF s.usage \/ (s.port < 0 /\ s.path = NULL) THEN "usage" ELSE "open"
        /\ UNCHANGED <<s_device_socket, s_closed, s_fd, held, opened, reader>>

-----------------------------------------------------------------------------
(* mainLoop.                                                               *)

\* Lines 74-119: the port, the socket or the device is opened; a failure
\* sleeps ten seconds and tries again.  With none of the three the loop
\* spins on fd = -1 the same way.
OpenInterface(ok) ==
    /\ pc = "open" /\ opened < MaxOpens
    /\ IF ok /\ (s_port > 0 \/ s_device_socket # 0 \/ s_device_path # NULL)
       THEN opened' = opened + 1 /\ held' = held \union {opened + 1} /\ pc' = "at_open"
       ELSE UNCHANGED <<opened, held, pc>>
    /\ UNCHANGED <<s_port, s_device_path, s_device_socket, s_closed, s_fd, reader>>

\* Lines 121-129: s_closed = 0 and at_open, which takes the descriptor and
\* starts the reader; when it fails mainLoop returns and main with it.
StartChannel(ok) ==
    /\ pc = "at_open"
    /\ s_closed' = 0
    /\ IF ok
       THEN s_fd' = opened /\ reader' = [reader EXCEPT ![opened] = "reading"]
            /\ pc' = "waitForClose"
       ELSE pc' = "returned" /\ UNCHANGED <<s_fd, reader>>
    /\ UNCHANGED <<s_port, s_device_path, s_device_socket, held, opened>>

\* The test of waitForClose's loop under s_state_mutex, which no other
\* thread ever takes: closed, and mainLoop opens again; or pthread_cond_wait.
waitForClose ==
    /\ pc = "waitForClose"
    /\ pc' = IF s_closed = 0 THEN "pthread_cond_wait" ELSE "open"
    /\ UNCHANGED <<s_port, s_device_path, s_device_socket, s_closed, s_fd, held,
                   opened, reader>>

\* Nothing signals s_state_cond: the wait ends only when the system wakes
\* the thread for no reason, as it may.
SpuriousWakeup ==
    /\ pc = "pthread_cond_wait"
    /\ pc' = "waitForClose"
    /\ UNCHANGED <<s_port, s_device_path, s_device_socket, s_closed, s_fd, held,
                   opened, reader>>

-----------------------------------------------------------------------------
(* The reader thread.                                                      *)

\* at_close: the channel's descriptor is closed and forgotten.
at_close ==
    /\ held' = held \ {s_fd}
    /\ s_fd' = -1

\* onATReaderClosed (mutant): s_closed = 1 before at_close.
onATReaderClosed_flag_first(g) ==
    \/ /\ reader[g] = "reading"
       /\ s_closed' = 1
       /\ reader' = [reader EXCEPT ![g] = "closing"]
       /\ UNCHANGED <<pc, s_port, s_device_path, s_device_socket, s_fd, held, opened>>
    \/ /\ reader[g] = "closing"
       /\ at_close
       /\ reader' = [reader EXCEPT ![g] = "done"]
       /\ UNCHANGED <<pc, s_port, s_device_path, s_device_socket, s_closed, opened>>

\* The reader of the g-th at_open at end of file: at_close, then
\* s_closed = 1, without s_state_mutex and without a signal.
onATReaderClosed(g) ==
    \/ /\ reader[g] = "reading"
       /\ at_close
       /\ reader' = [reader EXCEPT ![g] = "closing"]
       /\ UNCHANGED <<pc, s_port, s_device_path, s_device_socket, s_closed, opened>>
    \/ /\ reader[g] = "closing"
       /\ s_closed' = 1
       /\ reader' = [reader EXCEPT ![g] = "done"]
       /\ UNCHANGED <<pc, s_port, s_device_path, s_device_socket, s_fd, held, opened>>

\* The daemon has left (usage, or at_open failed), or has used its opens.
Stopped ==
    /\ \/ pc \in {"usage", "returned"}
       \/ opened = MaxOpens /\ pc = "open"
    /\ UNCHANGED vars

MainThread ==
    \/ \E argv \in Argvs : main(argv)
    \/ \E ok \in BOOLEAN : OpenInterface(ok)
    \/ \E ok \in BOOLEAN : StartChannel(ok)
    \/ waitForClose

Next ==
    \/ MainThread
    \/ SpuriousWakeup
    \/ \E g \in Opens : onATReaderClosed(g)
    \/ Stopped

Spec == Init /\ [][Next]_vars

\* The threads are scheduled; a spurious wake-up is promised by nobody.
FairSpec ==
    /\ Spec
    /\ WF_vars(main(<<>>) \/ waitForClose \/ OpenInterface(TRUE) \/ StartChannel(TRUE))
    /\ \A g \in Opens : WF_vars(onATReaderClosed(g))

-----------------------------------------------------------------------------
(* Properties.                                                             *)

RilTypeOK ==
    /\ pc \in {"main", "usage", "open", "at_open", "waitForClose", "pthread_cond_wait",
               "returned"}
    /\ s_port \in Int /\ s_device_path \in {NULL, "/dev/tty"}
    /\ s_device_socket \in {0, 1} /\ s_closed \in {0, 1}
    /\ s_fd \in {-1} \union Opens /\ held \subseteq Opens /\ opened \in 0..MaxOpens
    /\ reader \in [Opens -> {"none", "reading", "closing", "done"}]

\* onATReaderClosed closes before it sets s_closed, and mainLoop opens again
\* only after s_closed: a reader thread that is reading reads the descriptor
\* of its own at_open, which is open, and mainLoop never holds two
\* descriptors.
ReaderReadsItsOwnChannel ==
    /\ \A g \in Opens : reader[g] = "reading" => s_fd = g /\ g \in held
    /\ Cardinality(held) <= 1

\* mainLoop's comment "Re-opening after close": once the reader has closed
\* the channel, mainLoop goes on to open the interface again.
ClosedChannelIsReopened ==
    \A g \in Opens : reader[g] = "done" ~> pc \in {"open", "at_open", "returned"} \/ opened > g

=============================================================================
