CONSTANTS
    PayloadLen = 4
    Byte <- MCByte
    FF = "ff"
    Junk = Junk
    CrcValue = {0, 1}
    Crc <- MCCrc
    ValidPayload <- MCValid
    Chunk <- MCChunk
    GenMax = 2
    TransferId = {1, 2}
SPECIFICATION TransferSpec
INVARIANTS
    StoreHolds
    SessionMatchesCandidate
    AcknowledgementsHold
PROPERTIES
    ImplementsRegister
