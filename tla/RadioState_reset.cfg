\* Does the radio stay off after the modem has reset?
SPECIFICATION Spec
CONSTANTS
    MaxEvents = 3
INVARIANT ResetRadioStaysOff
