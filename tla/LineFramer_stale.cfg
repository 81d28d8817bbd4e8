SPECIFICATION Spec
CONSTANTS
    Channels = {0}
    MAX_AT_RESPONSE = 8
    Texts <- MCTextsPrompt
    SmsTexts = {}
    MaxLines = 4
INVARIANT
    LinesAreStreamLines
