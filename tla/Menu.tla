-------------------------------- MODULE Menu --------------------------------
(***************************************************************************)
(* get_menu_selection of recovery.c: the loop that turns the keys of the   *)
(* user into the item chosen from a menu.  The keys come as the actions    *)
(* device_handle_key makes of them: one of the four below, MENU_BACK, or a *)
(* number that stands for an item by itself.  The values of the actions    *)
(* are those of recovery_ui.h; the loop only asks that they are negative   *)
(* and differ.                                                             *)
(***************************************************************************)
EXTENDS Integers, Sequences, SequencesExt

NO_ACTION      == -1
HIGHLIGHT_UP   == -2
HIGHLIGHT_DOWN == -3
SELECT_ITEM    == -4
MENU_BACK      == -5

\* chosen_item while the loop runs.
Undecided == -1

\* ui_menu_select: the highlight stays on the menu; on a menu without items
\* it comes to lie before the first.
ui_menu_select(sel, menu_items) ==
    LET low == IF sel < 0 THEN 0 ELSE sel
    IN  IF low >= menu_items THEN menu_items - 1 ELSE low

\* The loop is over: an item or MENU_BACK is chosen.
Left(chosen_item) == chosen_item >= 0 \/ chosen_item = MENU_BACK

\* What the loop has chosen after the actions given, Undecided while it
\* waits for more: the highlight starts on the first item, MENU_BACK leaves
\* at once, and an action that is an item counts unless the menu is
\* menu_only.
get_menu_selection(actions, menu_items, menu_only) ==
    LET turn(m, action) ==
            CASE Left(m.chosen_item)     -> m
              [] action = MENU_BACK      -> [m EXCEPT !.chosen_item = action]
              [] action = HIGHLIGHT_UP   ->
                     [m EXCEPT !.selected = ui_menu_select(@ - 1, menu_items)]
              [] action = HIGHLIGHT_DOWN ->
                     [m EXCEPT !.selected = ui_menu_select(@ + 1, menu_items)]
              [] action = SELECT_ITEM    -> [m EXCEPT !.chosen_item = m.selected]
              [] action >= 0 /\ ~menu_only -> [m EXCEPT !.chosen_item = action]
              [] OTHER                   -> m
    IN  FoldLeft(turn, [selected |-> 0, chosen_item |-> Undecided], actions).chosen_item

\* The items the user can come to choose with the runs of keys given.
Selections(runs, menu_items, menu_only) ==
    {get_menu_selection(run, menu_items, menu_only) : run \in runs} \ {Undecided}

=============================================================================
