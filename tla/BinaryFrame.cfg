SPECIFICATION FrameSpec
CONSTANTS
    BitXor <- MCBitXor
    ByteBits = 3
    Poly = 33
    Magic0 = 5
    Magic1 = 2
    HeaderLen = 3
    MaxPayload = 4
    Frames <- MCFrames
    NoiseBytes <- MCNoise
    MaxNoise = 4
    MaxFrames = 4
INVARIANTS
    DeliversWhatWasSent
    ParserBounded
CHECK_DEADLOCK FALSE
