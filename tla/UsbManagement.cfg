SPECIFICATION LiveSpec
CONSTANTS
    Kind = {"ASSET", "ENTER"}
    RxCap = 2
    TxCap = 4
    Wrap = 8
    MaxPacket = 3
    ReqLen = 2
    AnsLen = 2
    Fallback = 1
    MaxRequests = 3
    MaxResets = 2
INVARIANTS
    RingsIntact
PROPERTIES
    AnswersDrain
    EnterResets
