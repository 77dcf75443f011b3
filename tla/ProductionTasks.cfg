SPECIFICATION LiveSpec
CONSTANTS
    Bytes = {"t", "nl"}
    Methods <- MCMethods
    RingCapacity = 2
    UsbCapacity = 1
    LineCapacity = 3
    MaxArgs = 1
    PollTicks = 1
    BeatTicks = 1
    ShortTicks = 1
    LongTicks = 2
    WatchdogTicks = 13
    MayFail = {"clock", "prepare", "iwdg", "bridge", "core"}
    TxOutcomes = {TRUE, FALSE}
    MaxBytes = 4
    MaxUsb = 1
INVARIANTS
    ConsoleStaysAwake
    RunsWhatArrived
PROPERTIES
    ResetsOnlyDeadEnds
    DeadEndsReset
