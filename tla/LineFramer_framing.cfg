SPECIFICATION Spec
CONSTANTS
    Channels = {0}
    MAX_AT_RESPONSE = 8
    Texts <- MCTextsAll
    SmsTexts <- MCSmsTexts
    MaxLines = 2
INVARIANTS
    FramerTypeOK
    PlainLinesAreStreamLines
    DitchLosesButNeverInvents
PROPERTY
    PromptIsHandedOn
    WireIsDrained
