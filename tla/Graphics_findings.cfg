\* Three expectations the display does not meet: a page on the panel is not
\* written, the character after a match is judged, the surface is freed once.
\* tlc -continue reports each of them.
SPECIFICATION Spec
CONSTANTS
    Alphabet = {"O", "K", "N", "o", "t", "5", "x"}
    MaxText = 3
INVARIANTS
    JudgesAfterEveryMatch
    FreesTheSurfaceOnce
PROPERTY ShownPageIsNeverWritten
