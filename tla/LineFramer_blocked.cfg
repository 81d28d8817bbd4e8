SPECIFICATION Spec
CONSTANTS
    Channels = {0, 1}
    MAX_AT_RESPONSE = 8
    Texts <- MCTexts
    SmsTexts = {}
    MaxLines = 1
INVARIANT
    NoBlockingWhileOtherReady
