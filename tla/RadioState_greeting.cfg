\* Is a new connection always answered RADIO_STATE_OFF?
SPECIFICATION Spec
CONSTANTS
    MaxEvents = 4
PROPERTY NewConnectionIsToldOff
