------------------------------ MODULE Graphics ------------------------------
(***************************************************************************)
(* The display of the recovery tool (minui/graphics.c): the frame buffer   *)
(* with its two pages, the surface in memory everything is drawn into,     *)
(* gr_flip that copies the surface into the page not shown and swaps, and  *)
(* the colours gr_text gives the words it knows.                           *)
(*                                                                         *)
(* The client (ui.c, not in the tree) is any program that calls gr_init,   *)
(* draws and flips while gr_init has returned 0, calls gr_exit and may     *)
(* start again.  The console, the frame buffer driver and malloc are the   *)
(* environment.  A picture is a number; a text a sequence of characters.   *)
(***************************************************************************)
EXTENDS Integers, Sequences, SequencesExt

CONSTANTS
    Alphabet,       \* the characters of the texts drawn
    MaxText         \* bound: the length of a text

Texts == BoundedSeq(Alphabet, MaxText)
Pictures == {0, 1}
Digits == {"0", "1", "2", "3", "4", "5", "6", "7", "8", "9"}

\* The words of gr_special_text_color in the order of its tests, with the
\* colour of each: 1 is drawn green, 2 red, 0 yellow.
Words ==
    <<[word |-> <<"O", "K">>, color |-> 1], [word |-> <<"o", "k">>, color |-> 1],
      [word |-> <<"O", "k">>, color |-> 1], [word |-> <<"O", "n">>, color |-> 1],
      [word |-> <<"C", "a", "n", "n", "o", "t">>, color |-> 2],
      [word |-> <<"N", "o", "t">>, color |-> 2], [word |-> <<"n", "o", "t">>, color |-> 2],
      [word |-> <<"E", "r", "r">>, color |-> 2], [word |-> <<"e", "r", "r">>, color |-> 2],
      [word |-> <<"F", "a", "i", "l">>, color |-> 2],
      [word |-> <<"f", "a", "i", "l">>, color |-> 2],
      [word |-> <<"S", "U", "C", "C">>, color |-> 1],
      [word |-> <<"S", "u", "c", "c">>, color |-> 1],
      [word |-> <<"H", "O", "M", "E">>, color |-> 1],
      [word |-> <<"C", "A", "L", "L">>, color |-> 1],
      [word |-> <<"B", "A", "C", "K">>, color |-> 1],
      [word |-> <<"M", "E", "N", "U">>, color |-> 1],
      [word |-> <<"E", "r", "r", "o", "r">>, color |-> 2],
      [word |-> <<"C", "a", "n", "'", "t">>, color |-> 2]>>

Colors == <<"yellow", "green", "red">>

VARIABLES
    gr_fb_fd, gr_vt_fd,     \* a descriptor or -1
    data,                   \* gr_mem_surface.data: "NULL", "live" or "freed"
    mem,                    \* the picture in the surface
    fb,                     \* the pictures in the two pages of the frame buffer
    gr_active_fb,
    panel,                  \* the page the driver shows
    kd,                     \* the mode of the console
    g_gr_auto_text_color,
    color,                  \* the colour of the GL context
    up,                     \* the client holds a display: gr_init returned 0
    fault                   \* what ended the program, or "none"

vars == <<gr_fb_fd, gr_vt_fd, data, mem, fb, gr_active_fb, panel, kd,
          g_gr_auto_text_color, color, up, fault>>

\* The statics as the loader leaves them; the driver shows page 0.
Init ==
    /\ gr_fb_fd = -1 /\ gr_vt_fd = -1 /\ data = "NULL"
    /\ mem = 0 /\ fb = [n \in 0..1 |-> 0]
    /\ gr_active_fb = 0 /\ panel = 0
    /\ kd = "KD_TEXT" /\ g_gr_auto_text_color = 0 /\ color = "white"
    /\ up = FALSE /\ fault = "none"

-----------------------------------------------------------------------------
(* The colours of a text *)

\* The digits a text begins with.
LeadingDigits(s) ==
    CHOOSE n \in 0..Len(s) :
        /\ \A i \in 1..n : s[i] \in Digits
        /\ n < Len(s) => s[n + 1] \notin Digits

\* gr_special_text_color: the length and the colour of the first word of the
\* table the text begins with, or of its leading digits, or 0 and yellow.
gr_special_text_color(s) ==
    LET first == SelectInSeq(Words, LAMBDA w : IsPrefix(w.word, s))
        ret   == IF first # 0 THEN Len(Words[first].word) ELSE LeadingDigits(s)
        ind   == IF first # 0 THEN Words[first].color ELSE IF ret > 0 THEN 1 ELSE 0
    IN  [ret |-> ret, color |-> Colors[ind + 1]]

\* The test that ends a match in gr_text (mutant): one character early.
Rejudge_early(color_text_ind, color_text_len) ==
    color_text_ind + 2 >= color_text_len

\* if (color_text_ind>=color_text_len-1), in the integers of C.
Rejudge(color_text_ind, color_text_len) ==
    color_text_ind + 1 >= color_text_len

\* The loop of gr_text over the characters of s: each is drawn in the colour
\* of the context, which a judgement changes.  The result has the colour of
\* every character and whether it was judged.
gr_text_loop(s, enable, start) ==
    LET Char(st, i) ==
            IF enable = 0 THEN
                [st EXCEPT !.out = Append(@, [color |-> st.color, judged |-> FALSE])]
            ELSE IF st.len = 0 THEN
                LET j == gr_special_text_color(SubSeq(s, i, Len(s)))
                IN  [len |-> j.ret, ind |-> 0, color |-> j.color,
                     out |-> Append(st.out, [color |-> j.color, judged |-> TRUE])]
            ELSE
                LET again == Rejudge(st.ind + 1, st.len)
                IN  [len   |-> IF again THEN 0 ELSE st.len,
                     ind   |-> IF again THEN 0 ELSE st.ind + 1,
                     color |-> st.color,
                     out   |-> Append(st.out, [color |-> st.color, judged |-> FALSE])]
    IN  FoldLeftDomain(Char, [len |-> 0, ind |-> 0, color |-> start, out |-> <<>>], s)

-----------------------------------------------------------------------------
(* gr_init and gr_exit *)

\* free(gr_mem_surface.data): the pointer keeps its value.
free == IF data = "live" THEN "freed" ELSE data

\* gr_exit, also called by gr_init when it fails: the descriptors are closed,
\* the surface freed, the console back in text mode if it is open.
Exit ==
    /\ gr_fb_fd' = -1 /\ gr_vt_fd' = -1
    /\ data' = free
    /\ fault' = IF data = "freed" THEN "double free" ELSE fault
    /\ kd' = IF gr_vt_fd >= 0 THEN "KD_TEXT" ELSE kd
    /\ up' = FALSE

gr_exit ==
    /\ up /\ fault = "none"
    /\ Exit
    /\ UNCHANGED <<mem, fb, gr_active_fb, panel, g_gr_auto_text_color, color>>

\* set_active_framebuffer: a swap the driver refuses is only logged.
set_active_framebuffer(n, swapped) == IF n <= 1 /\ swapped THEN n ELSE panel

\* get_framebuffer: the descriptor of /dev/graphics/fb0 with its two pages
\* mapped, or -1 with the descriptor closed when open, one of the two
\* requests for the screen or mmap has failed.
get_framebuffer(mapped) == IF mapped THEN 4 ELSE -1

\* get_memory_surface keeps what malloc returns, unchecked.
get_memory_surface(allocated) == IF allocated THEN "live" ELSE "NULL"

\* gr_init.  tty: /dev/tty0 opens; graphics: KDSETMODE succeeds; swapped:
\* the driver accepts page 0.
gr_init(tty, graphics, mapped, allocated, swapped) ==
    /\ ~up /\ fault = "none"
    /\ IF (tty /\ ~graphics) \/ get_framebuffer(mapped) < 0
       THEN /\ Exit
            /\ UNCHANGED <<gr_active_fb, panel>>
       ELSE /\ gr_vt_fd' = IF tty THEN 3 ELSE -1
            /\ kd' = IF tty THEN "KD_GRAPHICS" ELSE kd
            /\ gr_fb_fd' = get_framebuffer(mapped)
            /\ data' = get_memory_surface(allocated)
            /\ gr_active_fb' = 0
            /\ panel' = set_active_framebuffer(0, swapped)
            /\ up' = TRUE
            /\ UNCHANGED fault
    /\ UNCHANGED <<mem, fb, g_gr_auto_text_color, color>>

-----------------------------------------------------------------------------
(* Drawing *)

\* What the GL library does with a surface that is no memory.
Through(effect) ==
    \/ data = "live" /\ effect /\ UNCHANGED fault
    \/ data # "live" /\ fault' = "no surface"
                     /\ UNCHANGED <<mem, fb, gr_active_fb, panel, color>>

gr_color(c) ==
    /\ up /\ fault = "none"
    /\ color' = c
    /\ UNCHANGED <<gr_fb_fd, gr_vt_fd, data, mem, fb, gr_active_fb, panel, kd,
                   g_gr_auto_text_color, up, fault>>

gr_auto_text_color(enable) ==
    /\ up /\ fault = "none"
    /\ g_gr_auto_text_color' = enable
    /\ UNCHANGED <<gr_fb_fd, gr_vt_fd, data, mem, fb, gr_active_fb, panel, kd, color,
                   up, fault>>

\* gr_fill: another picture in the surface.
gr_fill ==
    /\ up /\ fault = "none"
    /\ Through(mem' = 1 - mem /\ UNCHANGED <<fb, gr_active_fb, panel, color>>)
    /\ UNCHANGED <<gr_fb_fd, gr_vt_fd, data, kd, g_gr_auto_text_color, up>>

\* gr_blit: the source is in the surface.  gr_context is not NULL once
\* gr_init has run.
gr_blit(source) ==
    /\ up /\ fault = "none"
    /\ Through(mem' = source /\ UNCHANGED <<fb, gr_active_fb, panel, color>>)
    /\ UNCHANGED <<gr_fb_fd, gr_vt_fd, data, kd, g_gr_auto_text_color, up>>

\* gr_text: the text is in the surface, and the context keeps the colour of
\* the last judgement.
gr_text(s) ==
    /\ up /\ fault = "none" /\ s # <<>>
    /\ Through(/\ mem' = 1 - mem
               /\ color' = gr_text_loop(s, g_gr_auto_text_color, color).color
               /\ UNCHANGED <<fb, gr_active_fb, panel>>)
    /\ UNCHANGED <<gr_fb_fd, gr_vt_fd, data, kd, g_gr_auto_text_color, up>>

\* gr_flip (mutant): the page is not changed before the copy.
gr_flip_in_place(swapped) ==
    /\ up /\ fault = "none"
    /\ Through(/\ fb' = [fb EXCEPT ![gr_active_fb] = mem]
               /\ panel' = set_active_framebuffer(gr_active_fb, swapped)
               /\ UNCHANGED <<mem, gr_active_fb, color>>)
    /\ UNCHANGED <<gr_fb_fd, gr_vt_fd, data, kd, g_gr_auto_text_color, up>>

\* gr_flip: the other page becomes the active one, the surface is copied
\* into it and the driver is told to show it.
gr_flip(swapped) ==
    /\ up /\ fault = "none"
    /\ Through(/\ gr_active_fb' = (gr_active_fb + 1) % 2
               /\ fb' = [fb EXCEPT ![gr_active_fb'] = mem]
               /\ panel' = set_active_framebuffer(gr_active_fb', swapped)
               /\ UNCHANGED <<mem, color>>)
    /\ UNCHANGED <<gr_fb_fd, gr_vt_fd, data, kd, g_gr_auto_text_color, up>>

\* The program has ended.
Ended == fault # "none" /\ UNCHANGED vars

Next ==
    \/ \E tty, graphics, mapped, allocated, swapped \in BOOLEAN :
           gr_init(tty, graphics, mapped, allocated, swapped)
    \/ gr_exit
    \/ \E c \in {"white", "green"} : gr_color(c)
    \/ \E enable \in {0, 1} : gr_auto_text_color(enable)
    \/ gr_fill
    \/ \E source \in Pictures : gr_blit(source)
    \/ \E s \in Texts : gr_text(s)
    \/ \E swapped \in BOOLEAN : gr_flip(swapped)
    \/ Ended

Spec == Init /\ [][Next]_vars

-----------------------------------------------------------------------------
(* Properties *)

\* The display was never initialised: the state in which the properties of
\* gr_text, which are about no state, are evaluated.
Unused == ~up /\ gr_fb_fd = -1 /\ data = "NULL" /\ fault = "none"

\* Double buffering: while the driver shows the active page, no step changes
\* the picture in the page shown.  gr_flip changes gr_active_fb before its
\* memcpy, so that the copy goes into the page behind the one on the panel.
FlipWritesTheBackBuffer ==
    [][panel = gr_active_fb => fb'[panel] = fb[panel]]_vars

\* A word gr_special_text_color knows is drawn in one colour: from the
\* character gr_text judged, as many characters as the judgement returned
\* have its colour.  gr_text counts them with color_text_ind and judges again
\* when color_text_ind reaches color_text_len - 1.
MatchIsColouredWhole ==
    Unused => \A s \in Texts :
              LET out == gr_text_loop(s, 1, "white").out
              IN  \A i \in DOMAIN s :
                      out[i].judged =>
                          \A k \in i..Len(s) :
                              k < i + gr_special_text_color(SubSeq(s, i, Len(s))).ret
                                  => out[k].color = out[i].color

\* The same of what follows a match: the character after it is judged, so
\* that a word that follows a number or another word has its colour
\* ("re-judge", gr_text).
JudgesAfterEveryMatch ==
    Unused => \A s \in Texts :
              LET out == gr_text_loop(s, 1, "white").out
              IN  \A i \in DOMAIN s :
                      LET ret == gr_special_text_color(SubSeq(s, i, Len(s))).ret
                      IN  out[i].judged /\ ret > 0 /\ i + ret <= Len(s)
                              => out[i + ret].judged

\* Page flipping: what the panel shows is never written: gr_flip copies into
\* the page "we're about to make active".
ShownPageIsNeverWritten ==
    [][fb'[panel] = fb[panel]]_vars

\* gr_exit frees the surface gr_init allocated, once.
FreesTheSurfaceOnce ==
    fault # "double free"

=============================================================================
