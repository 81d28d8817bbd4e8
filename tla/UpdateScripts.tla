--------------------------- MODULE UpdateScripts ---------------------------
(***************************************************************************)
(* The update scripts of the SD card: find_sdcard_update_script of utils.c *)
(* fills the tables name and scripts from /sdcard/update/, and             *)
(* enter_remote_update of recovery.c (lines 592-632) shows a menu and runs *)
(* the script of the item chosen in a child.  The tables are static: they  *)
(* keep what earlier calls wrote.  A text is a sequence of characters; the *)
(* directory, the keys of the user and fork are the environment.           *)
(***************************************************************************)
EXTENDS Integers, Sequences, SequencesExt, Menu

CONSTANTS
    Listings,   \* what readdir may give of the directory, in its order
    TABLE,      \* the rows of name and of scripts, 256 in the source
    POINTER,    \* sizeof(char*)
    KeyRuns,    \* the runs of keys the user may answer the menu with
    MaxVisits   \* bound: the calls of enter_remote_update in one process

ASSUME /\ \A listing \in Listings : \A d_name \in ToSet(listing) : d_name \in Seq(STRING)
       /\ TABLE \in Nat \ {0} /\ POINTER \in Nat \ {0} /\ MaxVisits \in Nat

VARIABLES
    pc,         \* where enter_remote_update is
    name,       \* the table of the names the menu is given
    scripts,    \* the table of the paths sh is given
    num,        \* what find_sdcard_update_script returned
    menu_items, \* the items ui_start_menu counted
    chosen_item,
    ran,        \* what the children were to run
    outside,    \* a table was read or written outside its rows
    visits,
    listing     \* history: the directory as the last call read it

vars == <<pc, name, scripts, num, menu_items, chosen_item, ran, outside, visits, listing>>

Rows      == 0..(TABLE - 1)
\* The texts the code names, each kept as one character.
dir_path   == <<"/sdcard/update/">>
tnosupdate == <<<<"/system/etc/tnosupdate.sh">>, <<"/system/etc/tnosupdate-1.sh">>>>
Memory     == <<"memory">>      \* what lies where no row is
Nothing    == <<"nothing">>     \* the child has no script to run

Init ==
    /\ pc = "menu" /\ name = [i \in Rows |-> <<>>] /\ scripts = [i \in Rows |-> <<>>]
    /\ num = 0 /\ menu_items = 0 /\ chosen_item = Undecided /\ ran = <<>>
    /\ outside = FALSE /\ visits = 0 /\ listing = <<>>

-----------------------------------------------------------------------------
(* utils.c and path_cat of CA.c.                                           *)

path_cat(str1, str2) == str1 \o str2

\* strncpy(dest, src, strlen(src)): no NUL is written, and dest keeps what
\* it held behind the characters copied.
strncpy(dest, src) == src \o SubSeq(dest, Len(src) + 1, Len(dest))

\* UPDATE_SCRIPT_REGEX, "(.*).sh", is not anchored: regexec matches from the
\* start of the text to the last "sh" that has a character before it.
Shs(text)     == {k \in 2..(Len(text) - 1) : SubSeq(text, k, k + 1) = <<"s", "h">>}
regexec(text) == Shs(text) # {}

\* pm[1] (mutant): the group ends where "sh" begins.
pm1_with_the_dot(text) == SubSeq(text, 1, Max(Shs(text)) - 1)

\* pm[1]: what (.*) matched, which ends before the character that "." took.
pm1(text) == SubSeq(text, 1, Max(Shs(text)) - 2)

\* find_sdcard_update_script: every entry that matches takes the next row
\* of both tables, with no test for their end; readdir is given what
\* opendir returned, NULL included.
find_sdcard_update_script(opened, entries) ==
    LET found  == SelectSeq(entries, regexec)
        filled == {i \in Rows : i < Len(found)}
    IN  /\ pc = "find_sdcard_update_script"
        /\ listing' = IF opened THEN entries ELSE <<>>
        /\ IF opened
           THEN /\ scripts' = [i \in Rows |->
                                  IF i \in filled
                                  THEN strncpy(scripts[i], path_cat(dir_path, found[i + 1]))
                                  ELSE scripts[i]]
                /\ name' = [i \in Rows |->
                               IF i \in filled THEN strncpy(name[i], pm1(found[i + 1]))
                               ELSE name[i]]
                /\ num' = Len(found)
                /\ outside' = (outside \/ Len(found) > TABLE)
                /\ pc' = "get_menu_selection"
           ELSE pc' = "readdir(NULL)" /\ UNCHANGED <<name, scripts, num, outside>>
        /\ UNCHANGED <<menu_items, chosen_item, ran, visits>>

-----------------------------------------------------------------------------
(* enter_remote_update.                                                    *)

\* Line 592, after an authentication that did not end the function.
enter_remote_update ==
    /\ pc = "menu" /\ visits < MaxVisits
    /\ visits' = visits + 1
    /\ pc' = "find_sdcard_update_script"
    /\ UNCHANGED <<name, scripts, num, menu_items, chosen_item, ran, outside, listing>>

\* The pointers ui_start_menu finds in a row of characters, up to the first
\* that is NULL.
Pointers(row) == (Len(row) + POINTER - 1) \div POINTER

\* Lines 597-601.  With scripts found the items are name, an array of rows
\* given for an array of pointers: the characters of name[0] are taken for
\* the addresses of the items, which can be read or cannot.  Without
\* scripts the items are the two versions.  No item is menu_only.
menu(run, readable) ==
    LET items == IF num > 0 THEN Pointers(name[0]) ELSE 2
    IN  /\ pc = "get_menu_selection"
        /\ IF num > 0 /\ items > 0 /\ ~readable
           THEN pc' = "ui_start_menu" /\ UNCHANGED <<menu_items, chosen_item>>
           ELSE /\ menu_items' = items
                /\ chosen_item' = get_menu_selection(run, items, FALSE)
                /\ chosen_item' # Undecided
                /\ pc' = "fork"
        /\ UNCHANGED <<name, scripts, num, ran, outside, visits, listing>>

\* Lines 603-629: the child is to run scripts[chosen_item], whatever the
\* item is, or one of the two scripts of the system; the parent waits.
fork(forked) ==
    LET script == CASE num > 0 /\ chosen_item \in Rows -> scripts[chosen_item]
                    [] num > 0                         -> Memory
                    [] chosen_item \in {0, 1}          -> tnosupdate[chosen_item + 1]
                    [] OTHER                           -> Nothing
    IN  /\ pc = "fork"
        /\ ran' = IF forked THEN Append(ran, script) ELSE ran
        /\ outside' = (outside \/ (forked /\ script = Memory))
        /\ pc' = "menu"
        /\ UNCHANGED <<name, scripts, num, menu_items, chosen_item, visits, listing>>

\* The tool has crashed, in readdir or where ui_start_menu copies the items,
\* or the user leaves the update alone.
Ended ==
    /\ pc \in {"readdir(NULL)", "ui_start_menu"} \/ (pc = "menu" /\ visits = MaxVisits)
    /\ UNCHANGED vars

Next ==
    \/ enter_remote_update
    \/ \E opened \in BOOLEAN, entries \in Listings : find_sdcard_update_script(opened, entries)
    \/ \E run \in KeyRuns, readable \in BOOLEAN : menu(run, readable)
    \/ \E forked \in BOOLEAN : fork(forked)
    \/ Ended

Spec == Init /\ [][Next]_vars

-----------------------------------------------------------------------------
(* Properties.                                                             *)

\* What the name of the pattern asks for: the text in front of a character
\* and "sh", the longest there is.
Stems(text) ==
    {stem \in Prefixes(text) :
        \E c \in ToSet(text), rest \in Suffixes(text) :
            text = stem \o <<c>> \o <<"s", "h">> \o rest}
Longest(texts) == CHOOSE t \in texts : \A u \in texts : Len(u) <= Len(t)

\* find_sdcard_update_script, called for the first time in a process whose
\* directory has no more scripts than the tables have rows: num counts the
\* entries with a stem, and row i of scripts and of name holds the path and
\* the stem of the i-th of them, in the order of the directory, the other
\* rows nothing.  regexec's offsets and the two strncpy of lines 108-109
\* give that only while the rows are as the loader left them.
FirstListingFillsTheTables ==
    LET listed == SelectSeq(listing, LAMBDA d_name : Stems(d_name) # {})
    IN  visits = 1 /\ pc \in {"get_menu_selection", "fork", "menu"} /\ ~outside =>
            /\ num = Len(listed)
            /\ \A i \in Rows :
                   IF i < num
                   THEN /\ scripts[i] = dir_path \o listed[i + 1]
                        /\ name[i] = Longest(Stems(listed[i + 1]))
                   ELSE scripts[i] = <<>> /\ name[i] = <<>>

\* The name of UPDATE_SCRIPT_REGEX and the title of the menu, "Update to
\* the version below?": a child that runs a row of scripts runs a script
\* the directory held when the menu was shown.  Violated: a row keeps the
\* end of a longer path of an earlier call, and the row of an item behind
\* the scripts found is run as well.
RunsAScriptOfTheDirectory ==
    \A i \in DOMAIN ran :
        ran[i] \in {Nothing, Memory} \union ToSet(tnosupdate)
                       \union {path_cat(dir_path, d_name) : d_name \in ToSet(listing)}

\* Line 599, get_menu_selection(title_headers, name, 0): the menu has an
\* item for each script found.  Violated: name is an array of rows, and
\* the menu counts the pointers its first row spells.
MenuHasAnItemForEachScript ==
    pc = "fork" /\ num > 0 => menu_items = num

\* The tables have 256 rows and chosen_item is an index of scripts: nothing
\* is read or written outside the tables.  Violated: result is never
\* compared with the rows, and MENU_BACK and every key that stands for an
\* item index scripts as well.
StaysInTheTables == ~outside

\* Lines 101-102 of utils.c: the directory is there.  Violated: readdir is
\* given the NULL of an opendir that failed, without an SD card for one.
DirectoryIsOpened == pc # "readdir(NULL)"

=============================================================================
