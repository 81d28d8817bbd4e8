---------------------------- MODULE MCLineFramer ----------------------------
(* Values of LineFramer's constants for model checking.                    *)
EXTENDS LineFramer

\* Two ordinary lines, the second an SMS indication (two-line form).
MCTexts == {<<"a">>, <<"c", "d">>}

MCSmsTexts == {<<"c", "d">>}

\* A line, and the prompt.
MCTextsPrompt == {<<"a">>, Prompt}

\* A line, an SMS indication, the prompt, and a line as long as the buffer.
MCTextsAll == {<<"a">>, <<"c", "d">>, Prompt,
               <<"x", "y", "x", "y", "x", "y", "x", "y">>}

=============================================================================
