----------------------------- MODULE RadioReport -----------------------------
(***************************************************************************)
(* What the RIL promises the telephony application about the radio state   *)
(* (ril.h: RIL_UNSOL_RESPONSE_RADIO_STATE_CHANGED, onStateRequest), with   *)
(* the threads, the mutex and the flags left out.  The application holds a *)
(* copy of the radio state.  The copy is replaced by the state of the      *)
(* moment, or by RADIO_STATE_OFF, and while nothing is owed to a connected *)
(* application its copy is the radio state.                                *)
(***************************************************************************)
CONSTANTS
    States,     \* the radio states
    Off,        \* the state a connection starts from
    Nothing     \* the copy of an application that was told nothing yet

VARIABLES
    radio,      \* the radio state
    told,       \* the application's copy
    connected,  \* an application is connected
    owed        \* a report is on its way, or the state is being changed

reportVars == <<radio, told, connected, owed>>

Current == ~connected \/ told = radio

Init ==
    /\ radio \in States
    /\ told = Nothing
    /\ connected = FALSE
    /\ owed \in BOOLEAN

\* Work starts that may change the state or report it.
Owe ==
    /\ owed' = TRUE
    /\ UNCHANGED <<radio, told, connected>>

\* The state changes only while a report is owed.
Change(s) ==
    /\ owed
    /\ radio' = s
    /\ UNCHANGED <<told, connected, owed>>

\* The application is told the state of the moment or Off; the work ends
\* with this only when the copy is current.
Tell(s) ==
    /\ owed
    /\ told' = IF connected THEN s ELSE told
    /\ owed' \in BOOLEAN
    /\ ~owed' => (~connected \/ s = radio)
    /\ UNCHANGED <<radio, connected>>

\* The work ends, the copy being current.
Settle ==
    /\ owed /\ Current
    /\ owed' = FALSE
    /\ UNCHANGED <<radio, told, connected>>

\* An application connects and is owed the state.
Connect ==
    /\ ~connected
    /\ connected' = TRUE
    /\ told' = Nothing
    /\ owed' = TRUE
    /\ UNCHANGED radio

Disconnect ==
    /\ connected
    /\ connected' = FALSE
    /\ UNCHANGED <<radio, told, owed>>

Next ==
    \/ Owe \/ Settle \/ Connect \/ Disconnect
    \/ \E s \in States : Change(s)
    \/ \E s \in {radio, Off} : Tell(s)

Spec == Init /\ [][Next]_reportVars

\* With nothing owed the copy of a connected application is the radio state.
CopyIsCurrent == ~owed => Current

=============================================================================
