\* Does the telephony application learn every change of the radio state?
SPECIFICATION Spec
CONSTANTS
    MaxEvents = 3
INVARIANT UpperLayerLearnsTheState
PROPERTY ImplementsRadioReport
