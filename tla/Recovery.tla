------------------------------ MODULE Recovery ------------------------------
(***************************************************************************)
(* The recovery tool of recovery.c: what main does with the command the    *)
(* main system left for it, the menu of prompt_and_wait, and the command   *)
(* socket of module RecoverySocket, whose thread runs beside the menu.     *)
(*                                                                         *)
(* What outlives a restart is kept as it is on flash: the bootloader       *)
(* control block (BCB), the command and intent files of the cache          *)
(* partition, the state of the data, cache and system partitions and the   *)
(* packages on cache and SD card.  The bootloader, the main system, the    *)
(* installer of install_package, the update scripts and the user at the    *)
(* keys are the environment.  The device may lose power at any step of the *)
(* tool; a partition that was being written then is left damaged.          *)
(***************************************************************************)
EXTENDS RecoverySocket, Menu

CONSTANTS
    KeyRuns,        \* the runs of keys the user may answer a menu with
    Commands,       \* the command files the main system may write
    CachePackages,  \* packages the main system may download to CACHE:
    SdPackages,     \* packages on the SD card
    MaxForks        \* bound: children of fork that carry on as the tool

NULL            == "NULL"
INSTALL_SUCCESS == "INSTALL_SUCCESS"
INSTALL_ERROR   == "INSTALL_ERROR"

\* The long options of main, and what getopt_long returns for an argument.
OPTIONS == [send_intent |-> "s", update_package |-> "u", wipe_data |-> "w",
            wipe_cache |-> "c", socket_server |-> "v"]
getopt_long(arg) == IF arg.name \in DOMAIN OPTIONS THEN OPTIONS[arg.name] ELSE "?"

\* The items device_perform_action may return.
MENU_ITEMS == {"ITEM_REBOOT", "ITEM_WIPE_DATA", "ITEM_WIPE_CACHE", "ITEM_APPLY_SDCARD",
               "ITEM_UPDATE", "NO_ACTION"}

\* What get_menu_selection returns, for the keys the user may press, from
\* the menus of eleven items (wipe_data's confirmation, yh_sdcard_update's
\* actions), from choose_connection_method's menu of two and from
\* enter_remote_update's, where a key may stand for an item.
ItemAnswers   == Selections(KeyRuns, 11, TRUE)
MethodAnswers == Selections(KeyRuns, 2, TRUE)
ScriptAnswers == Selections(KeyRuns, 2, FALSE)

\* What install_package and an update script may leave of the system.
Results == {"new", "installing", "refused"}

ASSUME /\ \A c \in Commands : c \in Seq([name : STRING, optarg : STRING])
       /\ \A run \in KeyRuns : run \in Seq(Int)
       /\ CachePackages \subseteq STRING /\ SdPackages \subseteq STRING
       /\ MaxForks \in Nat

VARIABLES
    bcb,            \* flash: the bootloader message
    command_file,   \* CACHE:recovery/command, <<>> without one
    intent_file,    \* CACHE:recovery/intent, or NULL
    data, cache,    \* partitions: "used", "erased" or "garbage"
    system,         \* the system image: "old", "new" or "installing"
    packages,       \* the package files there are
    pc,             \* where the main thread is; "off", "android" without the tool
    argv,           \* what get_args left, without argv[0]
    opts,           \* main's send_intent ... socket_server
    status,         \* main's status
    ret,            \* where finish_recovery was called from
    waiting,        \* processes of the tool that wait for a child
    promised        \* history: the command main set out to run

recVars == <<bcb, command_file, intent_file, data, cache, system, packages, pc, argv, opts,
             status, ret, waiting, promised>>
flash   == <<bcb, command_file, intent_file, data, cache, system, packages>>
vars    == <<recVars, sockVars>>

ZeroBcb     == [command |-> "", first |-> "", args |-> <<>>]
NoOptions   == [send_intent |-> NULL, update_package |-> NULL, wipe_data |-> 0,
                wipe_cache |-> 0, socket_server |-> 0]
Partitions  == {"used", "erased", "garbage"}

\* The process of the tool as exec leaves it.
Fresh ==
    /\ argv' = <<>> /\ opts' = NoOptions /\ status' = INSTALL_SUCCESS
    /\ ret' = "reboot" /\ waiting' = 0
    /\ server' = "none" /\ s_fdListen' = -1 /\ s_fdCommand' = -1
    /\ p_record' \in Stack
    /\ backlog' = <<>> /\ wire' = <<>>
    /\ executed' = <<>> /\ sent' = <<>> /\ clients' = 0 /\ rebooted' = FALSE

RecInit ==
    /\ bcb = ZeroBcb /\ command_file = <<>> /\ intent_file = NULL
    /\ data = "used" /\ cache = "used" /\ system = "old" /\ packages = SdPackages
    /\ pc = "android" /\ argv = <<>> /\ opts = NoOptions /\ status = INSTALL_SUCCESS
    /\ ret = "reboot" /\ waiting = 0 /\ promised = NoOptions

Init == SockInit /\ RecInit

\* The main thread is at a label of a process that runs.
At(label) == pc = label /\ server # "exit(-1)" /\ ~rebooted

-----------------------------------------------------------------------------
(* The helpers of main.                                                    *)

\* fopen_root_path of a file of the cache: the partition is mounted first,
\* and there is no stream when it cannot be, as after an erase that failed.
fopen_root_path == cache # "garbage"

\* get_args (mutant): the arguments are not written back to the BCB.
get_args_unsaved ==
    /\ At("get_args")
    /\ argv' = IF bcb.first = "recovery" /\ bcb.args # <<>> THEN bcb.args
               ELSE IF fopen_root_path THEN command_file ELSE <<>>
    /\ pc' = "main"
    /\ UNCHANGED <<flash, opts, status, ret, waiting, promised, sockVars>>

\* The arguments come from the BCB when its first line is "recovery", else
\* or when it has none from the command file, and are written back to the
\* BCB with the command boot-recovery.
get_args ==
    LET boot   == IF bcb.first = "recovery" THEN bcb.args ELSE <<>>
        lines  == IF boot = <<>> /\ fopen_root_path THEN command_file ELSE boot
    IN  /\ At("get_args")
        /\ argv' = lines
        /\ bcb' = [command |-> "boot-recovery", first |-> "recovery", args |-> lines]
        /\ pc' = "main"
        /\ UNCHANGED <<command_file, intent_file, data, cache, system, packages, opts,
                       status, ret, waiting, promised, sockVars>>

\* set_sdcard_update_bootloader_message (mutant): the recovery line is
\* left as it was.
set_sdcard_update_bootloader_message_command_only ==
    bcb' = [bcb EXCEPT !.command = "boot-recovery"]

\* set_sdcard_update_bootloader_message (mutant): nothing is written.
set_sdcard_update_bootloader_message_skipped ==
    UNCHANGED bcb

set_sdcard_update_bootloader_message ==
    bcb' = [command |-> "boot-recovery", first |-> "recovery", args |-> <<>>]

\* format_root_device: the partition is empty, or is left damaged; with the
\* cache go its files.
erase_root(root, ok) ==
    LET fs == IF ok THEN "erased" ELSE "garbage"
    IN  /\ data' = IF root = "DATA:" THEN fs ELSE data
        /\ cache' = IF root = "CACHE:" THEN fs ELSE cache
        /\ command_file' = IF root = "CACHE:" THEN <<>> ELSE command_file
        /\ intent_file' = IF root = "CACHE:" THEN NULL ELSE intent_file
        /\ packages' = IF root = "CACHE:" THEN packages \ CachePackages ELSE packages

\* The installer and the update scripts: the new system, a system written
\* in part, or nothing written.
Install(result) ==
    system' = IF result = "refused" THEN system ELSE result

Present(package) ==
    package \in packages /\ (package \in CachePackages => cache # "garbage")

\* finish_recovery(send_intent), in the three writes it makes: the intent
\* file, the BCB, the command file.  The intent is NULL from the menu.
finish_recovery ==
    LET send_intent == IF ret = "get_menu_selection" THEN NULL ELSE opts.send_intent
    IN  /\ \/ /\ At("finish_recovery")
              /\ intent_file' = IF send_intent # NULL /\ fopen_root_path
                                THEN send_intent ELSE intent_file
              /\ pc' = "set_bootloader_message"
              /\ UNCHANGED <<bcb, command_file>>
           \/ /\ At("set_bootloader_message")
              /\ bcb' = ZeroBcb
              /\ pc' = "unlink"
              /\ UNCHANGED <<intent_file, command_file>>
           \/ /\ At("unlink")
              /\ command_file' = IF cache # "garbage" THEN <<>> ELSE command_file
              /\ pc' = ret
              /\ UNCHANGED <<bcb, intent_file>>
        /\ UNCHANGED <<data, cache, system, packages, argv, opts, status, ret, waiting,
                       promised, sockVars>>

-----------------------------------------------------------------------------
(* main.                                                                   *)

\* The loop over getopt_long: the last of each option counts, an argument
\* that is no option is passed over.
Options(args) ==
    LET set(o, arg) ==
            CASE getopt_long(arg) = "s" -> [o EXCEPT !.send_intent = arg.optarg]
              [] getopt_long(arg) = "u" -> [o EXCEPT !.update_package = arg.optarg]
              [] getopt_long(arg) = "w" -> [o EXCEPT !.wipe_data = 1, !.wipe_cache = 1]
              [] getopt_long(arg) = "c" -> [o EXCEPT !.wipe_cache = 1]
              [] getopt_long(arg) = "v" -> [o EXCEPT !.socket_server = 1]
              [] OTHER                  -> o
    IN  FoldLeft(set, NoOptions, args)

\* Lines 856-911: the options and the one branch main takes for them.
main ==
    LET o      == Options(argv)
        branch == CASE o.socket_server = 1      -> "finish_recovery"
                    [] o.update_package # NULL  -> "install_package"
                    [] o.wipe_data = 1          -> "erase DATA"
                    [] o.wipe_cache = 1         -> "erase CACHE"
                    [] OTHER                    -> "status"
    IN  /\ At("main")
        /\ opts' = o /\ pc' = branch
        /\ status' = IF branch = "status" THEN INSTALL_ERROR ELSE INSTALL_SUCCESS
        /\ ret' = IF o.socket_server = 1 THEN "init_server" ELSE ret
        /\ promised' = IF branch \in {"install_package", "erase DATA", "erase CACHE"}
                       THEN o ELSE NoOptions
        /\ UNCHANGED <<flash, argv, waiting, sockVars>>

main_install_package(result) ==
    /\ At("install_package")
    /\ result = "refused" \/ Present(opts.update_package)
    /\ Install(result)
    /\ status' = IF result = "new" THEN INSTALL_SUCCESS ELSE INSTALL_ERROR
    /\ pc' = "status"
    /\ UNCHANGED <<bcb, command_file, intent_file, data, cache, packages, argv, opts, ret,
                   waiting, promised, sockVars>>

\* device_wipe_data and erase_root("DATA:"); a failure is noted and the
\* cache is erased all the same.
main_wipe_data(hook, ok) ==
    /\ At("erase DATA")
    /\ erase_root("DATA:", ok)
    /\ status' = IF hook /\ ok THEN status ELSE INSTALL_ERROR
    /\ pc' = IF opts.wipe_cache = 1 THEN "erase CACHE" ELSE "status"
    /\ UNCHANGED <<bcb, system, argv, opts, ret, waiting, promised, sockVars>>

main_wipe_cache(ok) ==
    /\ At("erase CACHE")
    /\ erase_root("CACHE:", ok)
    /\ status' = IF ok THEN status ELSE INSTALL_ERROR
    /\ pc' = "status"
    /\ UNCHANGED <<bcb, system, argv, opts, ret, waiting, promised, sockVars>>

\* Lines 913-918: the menu after a failure, else finish_recovery and reboot.
main_status ==
    /\ At("status")
    /\ IF status # INSTALL_SUCCESS
       THEN pc' = "prompt_and_wait" /\ UNCHANGED ret
       ELSE pc' = "finish_recovery" /\ ret' = "reboot"
    /\ UNCHANGED <<flash, argv, opts, status, waiting, promised, sockVars>>

\* Line 895: the thread of event_loop is started and the menu shown.
main_init_server(created) ==
    /\ At("init_server")
    /\ init_server(created)
    /\ status' = INSTALL_SUCCESS
    /\ pc' = "prompt_and_wait"
    /\ UNCHANGED <<flash, argv, opts, ret, waiting, promised>>

-----------------------------------------------------------------------------
(* prompt_and_wait.                                                        *)

\* The next turn of the loop, which begins with finish_recovery(NULL), and
\* the return to main, which goes on to finish_recovery(send_intent).
Again  == pc' = "finish_recovery" /\ ret' = "get_menu_selection"
Return == pc' = "finish_recovery" /\ ret' = "reboot"
Leave(visible) == IF visible THEN Again ELSE Return

prompt_and_wait ==
    /\ At("prompt_and_wait")
    /\ Again
    /\ promised' = NoOptions
    /\ UNCHANGED <<flash, argv, opts, status, waiting, sockVars>>

\* The switch of lines 782-827 on the item chosen.
menu(chosen_item) ==
    /\ At("get_menu_selection")
    /\ CASE chosen_item = "ITEM_REBOOT"       -> Return /\ UNCHANGED bcb
         [] chosen_item = "ITEM_WIPE_DATA"    -> pc' = "wipe_data" /\ UNCHANGED <<ret, bcb>>
         [] chosen_item = "ITEM_WIPE_CACHE"   ->
                pc' = "menu erase CACHE" /\ UNCHANGED <<ret, bcb>>
         [] chosen_item = "ITEM_APPLY_SDCARD" ->
                /\ set_sdcard_update_bootloader_message
                /\ pc' = "yh_sdcard_update" /\ UNCHANGED ret
         [] chosen_item = "ITEM_UPDATE"       -> pc' = "fork" /\ UNCHANGED <<ret, bcb>>
         [] OTHER                             -> Again /\ UNCHANGED bcb
    /\ UNCHANGED <<command_file, intent_file, data, cache, system, packages, argv, opts,
                   status, waiting, promised, sockVars>>

\* wipe_data(confirm): with the text visible the user is asked in a menu of
\* eleven items, and only item 7 goes on; then DATA: and CACHE: are erased,
\* whatever each returns.
wipe_data(confirm, chosen_item, visible) ==
    /\ At("wipe_data")
    /\ IF confirm /\ chosen_item # 7
       THEN Leave(visible)
       ELSE pc' = "menu erase DATA" /\ UNCHANGED ret
    /\ UNCHANGED <<flash, argv, opts, status, waiting, promised, sockVars>>

menu_erase_data(ok) ==
    /\ At("menu erase DATA")
    /\ erase_root("DATA:", ok)
    /\ pc' = "menu erase CACHE"
    /\ UNCHANGED <<bcb, system, argv, opts, status, ret, waiting, promised, sockVars>>

menu_erase_cache(ok, visible) ==
    /\ At("menu erase CACHE")
    /\ erase_root("CACHE:", ok)
    /\ Leave(visible)
    /\ UNCHANGED <<bcb, system, argv, opts, status, waiting, promised, sockVars>>

\* yh_sdcard_update_build_items: the packages of the SD card, as menu items.
yh_sdcard_update_build_items == SetToSeq(packages \cap SdPackages)

\* yh_sdcard_update up to install_package: with packages on the card, the
\* package chosen from their menu and what to do with it, chosen from a
\* menu of eleven items (3 installs it, 7 deletes it).
yh_sdcard_update(chosen_item, action_item) ==
    LET items    == yh_sdcard_update_build_items
        pack_num == Len(items)
        picked   == pack_num > 0 /\ chosen_item >= 0
    IN  /\ At("yh_sdcard_update")
        /\ pack_num > 0 => chosen_item \in Selections(KeyRuns, pack_num, TRUE)
        /\ packages' = IF picked /\ action_item = 7
                       THEN packages \ {items[chosen_item + 1]} ELSE packages
        /\ IF picked /\ action_item = 3
           THEN pc' = "sdcard install_package" /\ UNCHANGED ret
           ELSE Again
        /\ UNCHANGED <<bcb, command_file, intent_file, data, cache, system, argv, opts,
                       status, waiting, promised, sockVars>>

\* install_package of the package chosen, and lines 803-811.
sdcard_install_package(result, visible) ==
    /\ At("sdcard install_package")
    /\ Install(result)
    /\ IF result = "new" THEN Leave(visible) ELSE Again
    /\ UNCHANGED <<bcb, command_file, intent_file, data, cache, packages, argv, opts,
                   status, waiting, promised, sockVars>>

-----------------------------------------------------------------------------
(* The remote update.  A child whose execl fails, or that has nothing to   *)
(* exec, falls out of the if and carries on as the tool, its parent        *)
(* waiting for it.                                                         *)

\* The child of a fork does not become the program it was to exec.
ChildCarriesOn == waiting < MaxForks /\ waiting' = waiting + 1

\* Lines 813-825: init.connect is run in a child, then choose_connection_method.
update_script(forked, execed) ==
    /\ At("fork")
    /\ IF forked /\ ~execed THEN ChildCarriesOn ELSE UNCHANGED waiting
    /\ pc' = "choose_connection_method"
    /\ UNCHANGED <<flash, argv, opts, status, ret, promised, sockVars>>

\* The connection script of item 0 or 1 of a menu of two is run in a child;
\* only the parent of a child that ran goes on to enter_remote_update.
choose_connection_method(chosen_item, forked, execed) ==
    /\ At("choose_connection_method")
    /\ CASE ~forked -> Again /\ UNCHANGED waiting
         [] forked /\ chosen_item \in {0, 1} /\ execed ->
                pc' = "enter_remote_update" /\ UNCHANGED <<ret, waiting>>
         [] OTHER -> ChildCarriesOn /\ Again
    /\ UNCHANGED <<flash, argv, opts, status, promised, sockVars>>

\* enter_remote_update: after an authentication that went well the
\* wallpaper is written to the data partition; without a signature it
\* ends; else the update script chosen is run in a child: one of the num
\* scripts find_sdcard_update_script found, or tnosupdate of item 0 or 1.
enter_remote_update(outcome, num, chosen_item, forked, execed, result) ==
    LET ran == outcome # "END" /\ forked /\ execed
                   /\ (num > 0 \/ chosen_item \in {0, 1})
    IN  /\ At("enter_remote_update")
        /\ data' = IF outcome = "authenticated" /\ data # "garbage" THEN "used" ELSE data
        /\ Install(IF ran THEN result ELSE "refused")
        /\ IF outcome = "END" \/ ~forked \/ ran
           THEN UNCHANGED waiting
           ELSE ChildCarriesOn
        /\ Again
        /\ UNCHANGED <<bcb, command_file, intent_file, cache, packages, argv, opts, status,
                       promised, sockVars>>

-----------------------------------------------------------------------------
(* The thread of event_loop and its clients, beside the main thread.       *)

Server ==
    /\ pc \notin {"off", "android"}
    /\ \/ \E bound, listening \in BOOLEAN : event_loop(bound, listening)
       \/ \E ok \in BOOLEAN : accept(ok)
       \/ \E n \in -1..BUFFER : recv(n)
       \/ \E args \in Argvs : sendmessage(args)
    /\ UNCHANGED recVars

\* install_package(fileName) of process_cmd.
server_install_package(result) ==
    /\ pc \notin {"off", "android"}
    /\ install_package
    /\ Install(result)
    /\ UNCHANGED <<bcb, command_file, intent_file, data, cache, packages, pc, argv, opts,
                   status, ret, waiting, promised>>

-----------------------------------------------------------------------------
(* The device.                                                             *)

\* What the threads of the tool are writing.
Writing ==
    (IF pc \in {"erase DATA", "menu erase DATA"} THEN {"data"} ELSE {})
        \union (IF pc \in {"erase CACHE", "menu erase CACHE"} THEN {"cache"} ELSE {})
        \union (IF pc \in {"install_package", "sdcard install_package"}
                   \/ server = "install_package" THEN {"system"} ELSE {})

\* The tool ends with the device: reboot of main (line 922), reboot of
\* process_cmd, or the power is lost.  What was being written may be left
\* in part.
Down(torn) ==
    /\ pc \notin {"off", "android"}
    /\ torn \subseteq Writing
    /\ data' = IF "data" \in torn THEN "garbage" ELSE data
    /\ cache' = IF "cache" \in torn THEN "garbage" ELSE cache
    /\ system' = IF "system" \in torn THEN "installing" ELSE system
    /\ pc' = "off"
    /\ Fresh
    /\ UNCHANGED <<bcb, command_file, intent_file, packages, promised>>

reboot ==
    /\ At("reboot") \/ rebooted
    /\ \E torn \in SUBSET Writing : Down(torn)

PowerLoss ==
    /\ ~(At("reboot") \/ rebooted)
    /\ \E torn \in SUBSET Writing : Down(torn)

\* The bootloader starts the tool when the BCB says boot-recovery or the
\* user holds the keys, the main system otherwise.
Boot(keys) ==
    /\ pc = "off"
    /\ pc' = IF keys \/ bcb.command = "boot-recovery" THEN "get_args" ELSE "android"
    /\ UNCHANGED <<flash, argv, opts, status, ret, waiting, promised, sockVars>>

\* The main system has used its partitions; it writes a command file, with
\* the package it names, and restarts into the tool.
MainSystemRequests(command) ==
    /\ pc = "android"
    /\ command_file' = command
    /\ packages' = packages \union
                       ({command[i].optarg : i \in DOMAIN command} \cap CachePackages)
    /\ data' = "used" /\ cache' = "used"
    /\ pc' = "get_args"
    /\ promised' = NoOptions
    /\ UNCHANGED <<bcb, intent_file, system, argv, opts, status, ret, waiting, sockVars>>

Next ==
    \/ get_args
    \/ main
    \/ \E result \in Results : main_install_package(result)
    \/ \E hook, ok \in BOOLEAN : main_wipe_data(hook, ok)
    \/ \E ok \in BOOLEAN : main_wipe_cache(ok)
    \/ main_status
    \/ \E created \in BOOLEAN : main_init_server(created)
    \/ finish_recovery
    \/ prompt_and_wait
    \/ \E chosen_item \in MENU_ITEMS : menu(chosen_item)
    \/ \E confirm, visible \in BOOLEAN, chosen_item \in ItemAnswers :
           wipe_data(confirm, chosen_item, visible)
    \/ \E ok \in BOOLEAN : menu_erase_data(ok)
    \/ \E ok, visible \in BOOLEAN : menu_erase_cache(ok, visible)
    \/ \E chosen_item \in {MENU_BACK} \union 0..Cardinality(SdPackages),
          action_item \in ItemAnswers :
           yh_sdcard_update(chosen_item, action_item)
    \/ \E result \in Results, visible \in BOOLEAN :
           sdcard_install_package(result, visible)
    \/ \E forked, execed \in BOOLEAN : update_script(forked, execed)
    \/ \E chosen_item \in MethodAnswers, forked, execed \in BOOLEAN :
           choose_connection_method(chosen_item, forked, execed)
    \/ \E outcome \in {"END", "authenticated", "refused"}, num \in {0, 3},
          chosen_item \in ScriptAnswers, forked, execed \in BOOLEAN, result \in Results :
           enter_remote_update(outcome, num, chosen_item, forked, execed, result)
    \/ Server
    \/ \E result \in Results : server_install_package(result)
    \/ reboot
    \/ PowerLoss
    \/ \E keys \in BOOLEAN : Boot(keys)
    \/ \E command \in Commands : MainSystemRequests(command)

Spec == Init /\ [][Next]_vars

-----------------------------------------------------------------------------
(* Properties.                                                             *)

RecoveryTypeOK ==
    /\ bcb \in [command : {"", "boot-recovery"}, first : {"", "recovery"},
                args : Commands \union {<<>>}]
    /\ bcb.command = "boot-recovery" <=> bcb.first = "recovery"
    /\ command_file \in Commands \union {<<>>}
    /\ intent_file \in STRING
    /\ data \in Partitions /\ cache \in Partitions
    /\ system \in {"old", "new", "installing"}
    /\ packages \subseteq CachePackages \union SdPackages
    /\ argv \in Commands \union {<<>>}
    /\ opts \in [send_intent : STRING, update_package : STRING, wipe_data : {0, 1},
                 wipe_cache : {0, 1}, socket_server : {0, 1}]
    /\ status \in {INSTALL_SUCCESS, INSTALL_ERROR}
    /\ ret \in {"init_server", "get_menu_selection", "reboot"}
    /\ waiting \in 0..MaxForks

\* The comment at the head of recovery.c, "these important scenarios must
\* be safely restartable at any point": once main has set out to run a
\* command of the main system, the main system starts again only with the
\* command done (the update installed, data and cache erased, the intent
\* written), wherever the power was lost in between, unless prompt_and_wait
\* has shown the user that it failed.  get_args writes the BCB before
\* anything is erased and finish_recovery clears it after all is done.
CommandedWorkSurvivesRestart ==
    pc = "android" =>
        /\ promised.update_package # NULL => system = "new"
        /\ promised.update_package = NULL /\ promised.wipe_data = 1 => data = "erased"
        /\ promised.update_package = NULL /\ promised.wipe_cache = 1 => cache = "erased"
        /\ promised # NoOptions /\ promised.send_intent # NULL =>
               intent_file = promised.send_intent

\* prompt_and_wait's ITEM_APPLY_SDCARD (line 800): the menu has cleared the
\* BCB, and set_sdcard_update_bootloader_message writes it again before
\* yh_sdcard_update installs.  When the device goes down while a package of
\* the SD card is chosen or installed, the bootloader starts the tool again
\* and not the system that was being written.
CardInstallRestartsTheTool ==
    [][(pc \in {"yh_sdcard_update", "sdcard install_package"} /\ pc' = "off")
           => (bcb'.command = "boot-recovery")]_vars

=============================================================================
