\* Are the bytes sendPDU sends bytes of buf?
SPECIFICATION Spec
CONSTANTS
    PduArgvs <- MCPduArgvs
    BufSize = 12
INVARIANT SendsFromBuf
